---- MODULE Spec2Model ----
(***************************************************************************)
(* Magic Pass Resort Picker: the scoring engine (core/scoring.py), the     *)
(* recommendation orchestrator (core/recommender.py), the batch fetchers   *)
(* of the three data services and the streaming endpoint (main.py).        *)
(*                                                                         *)
(* Units: a score the code returns (one decimal) is an integer number of   *)
(* tenths; inside a scorer the running score is kept in hundredths and     *)
(* round(score, 1) converts hundredths to tenths.  The weighted total is   *)
(* computed in thousandths.  Temperatures are whole degrees C, so twice    *)
(* the average of min and max is an integer.                               *)
(***************************************************************************)
EXTENDS Integers, Sequences, FiniteSets, TLC

VARIABLES
    fn,     \* the scoring function under evaluation
    arg,    \* its argument
    ret,    \* its return value, NoResult before the call
    op,     \* the orchestrator operation in progress
    count,  \* num_recommendations of the request
    pc,     \* where the orchestrator coroutine stands
    resorts,          \* the resort list returned by get_all_resorts
    task,             \* per source, per resort: the state of the per-resort fetch task
    completed,        \* per source: the batch's completed counter
    data,             \* per source: the mapping the batch fetch returned
    recommendations,  \* the orchestrator's recommendations list
    response,         \* what the operation returned
    resort_id,        \* get_resort_details: the id asked for
    detail,           \* get_resort_details: what each single fetch returned
    tracker,          \* ProgressTracker: _current_stage, _current_count, _total_count
    queue,            \* ProgressTracker.queue
    enqueued,         \* history: every update ever put on the queue, in order
    cpc,              \* where event_generator, the consumer of the queue, stands
    emitted,          \* the events event_generator has yielded, in order
    catalog,          \* the resort list ResortService holds (data/resorts.json)
    plan,             \* a batch called on its own: how each resort's fetch will end
    cache,            \* utils/cache.py: SimpleCache._cache of the global cache
    external,         \* requests sent to external sources by the fetch in progress
    calls             \* batch calls made by requests served at the same time

scoreVars == <<fn, arg, ret>>
auxVars == <<plan, cache, external, calls>>
fetchVars == <<resorts, task, completed, data>>
detailVars == <<resort_id, detail>>
progressVars == <<tracker, queue, enqueued>>
streamVars == <<cpc, emitted>>
reqVars == <<op, count, pc, resorts, task, completed, data, recommendations,
             response, resort_id, detail, tracker, queue, enqueued, cpc, emitted,
             catalog, auxVars>>
vars == <<fn, arg, ret, op, count, pc, resorts, task, completed, data,
          recommendations, response, resort_id, detail, tracker, queue,
          enqueued, cpc, emitted, catalog, auxVars>>

----------------------------------------------------------------------------
(* Optional values.  An Optional[int]/Optional[float] field holds NoneInt   *)
(* for Python None; an Optional model object is a record with present.     *)

NoneInt == -1

Truthy(x) == x # NoneInt /\ x # 0

NoForecast == [present |-> FALSE]
NoConditions == [present |-> FALSE]
NoJourney == [present |-> FALSE]
NoResort == [present |-> FALSE]

----------------------------------------------------------------------------
(* core/scoring.py                                                         *)

WEATHER_WEIGHT == 20
SNOW_WEIGHT == 45
TRANSPORT_WEIGHT == 10
SIZE_WEIGHT == 25

\* scores returned for an absent forecast, an absent journey, an unknown size
WEATHER_UNAVAILABLE_SCORE == 50
TRANSPORT_UNAVAILABLE_SCORE == 30
SIZE_UNKNOWN_SCORE == 50

\* the snow penalty replaced by weather's neutral score
SNOW_UNAVAILABLE_PENALTY_Neutral == WEATHER_UNAVAILABLE_SCORE

SNOW_UNAVAILABLE_PENALTY == 25

Max2(a, b) == IF a >= b THEN a ELSE b
Min2(a, b) == IF a <= b THEN a ELSE b

\* the clamp without its upper limit
Clamp_NoUpperLimit(x) == Max2(0, x)

\* score = max(0.0, min(10.0, score)), in hundredths
Clamp(x) == Max2(0, Min2(1000, x))

\* round(score, 1) of a non-negative score in hundredths, result in tenths
\* (round-half-even on the exactly representable halves)
Round1(x) ==
    LET q == x \div 10
        r == x % 10
    IN  IF r < 5 THEN q
        ELSE IF r > 5 THEN q + 1
        ELSE IF q % 2 = 0 THEN q ELSE q + 1

Step(d, h, c) == [d |-> d, h |-> h, c |-> c]

\* avg_temp = (temperature_min + temperature_max) / 2, doubled
avg_temp2(f) == f.temperature_min + f.temperature_max

weather_temperature(f) ==
    LET a == avg_temp2(f)
    IN  IF -24 <= a /\ a <= -6
          THEN Step(200, <<"Perfect ski temperature">>, <<>>)
        ELSE IF (-30 <= a /\ a < -6) \/ (-6 < a /\ a <= 0)
          THEN Step(100, <<"Good temperature">>, <<>>)
        ELSE IF a > 4
          THEN Step(-200, <<>>, <<"Warm temperatures">>)
        ELSE IF a < -30
          THEN Step(-100, <<>>, <<"Very cold">>)
        ELSE Step(0, <<>>, <<>>)

weather_snowfall(f) ==
    IF Truthy(f.snowfall_cm)
      THEN IF f.snowfall_cm >= 20
             THEN Step(350, <<"Heavy snowfall expected">>, <<>>)
           ELSE IF f.snowfall_cm >= 10
             THEN Step(250, <<"Good snowfall expected">>, <<>>)
           ELSE IF f.snowfall_cm >= 5
             THEN Step(100, <<"Some fresh snow expected">>, <<>>)
           ELSE Step(0, <<>>, <<>>)
      ELSE Step(0, <<>>, <<>>)

weather_cloud(f) ==
    IF f.cloud_cover < 30
      THEN IF Truthy(f.snowfall_cm) /\ f.snowfall_cm >= 5
             THEN Step(150, <<"Sunny conditions expected">>, <<>>)
             ELSE Step(50, <<"Sunny conditions expected">>,
                       <<"Dry conditions - no fresh snow forecast">>)
    ELSE IF f.cloud_cover < 50
      THEN Step(50, <<"Partly cloudy">>, <<>>)
    ELSE IF f.cloud_cover > 80
      THEN Step(-100, <<>>, <<"Overcast conditions">>)
    ELSE Step(0, <<>>, <<>>)

weather_wind(f) ==
    IF f.wind_speed < 20
      THEN Step(50, <<>>, <<>>)
    ELSE IF f.wind_speed > 50
      THEN Step(-200, <<>>, <<"Strong winds">>)
    ELSE IF f.wind_speed > 35
      THEN Step(-100, <<>>, <<"Moderate winds">>)
    ELSE Step(0, <<>>, <<>>)

weather_precipitation(f) ==
    IF f.precipitation_mm > 0 /\ ~Truthy(f.snowfall_cm) /\ avg_temp2(f) > 0
      THEN Step(-300, <<>>, <<"Rain expected">>)
      ELSE Step(0, <<>>, <<>>)

Result(s, h, c) == [score |-> s, highlights |-> h, concerns |-> c]

NoResult == [score |-> -1, highlights |-> <<>>, concerns |-> <<>>]

score_weather(f) ==
    IF ~f.present
      THEN Result(WEATHER_UNAVAILABLE_SCORE, <<>>, <<"Weather data unavailable">>)
      ELSE LET t == weather_temperature(f)
               s == weather_snowfall(f)
               c == weather_cloud(f)
               w == weather_wind(f)
               p == weather_precipitation(f)
           IN  Result(Round1(Clamp(500 + t.d + s.d + c.d + w.d + p.d)),
                      t.h \o s.h \o c.h \o w.h \o p.h,
                      t.c \o s.c \o c.c \o w.c \o p.c)

snow_base_depth(c) ==
    IF Truthy(c.snow_base)
      THEN IF c.snow_base >= 150
             THEN Step(250, <<"Excellent base depth">>, <<>>)
           ELSE IF c.snow_base >= 100
             THEN Step(150, <<"Good base depth">>, <<>>)
           ELSE IF c.snow_base >= 60
             THEN Step(50, <<>>, <<>>)
           ELSE IF c.snow_base < 40
             THEN Step(-200, <<>>, <<"Low snow base">>)
           ELSE Step(0, <<>>, <<>>)
      ELSE Step(0, <<>>, <<>>)

\* the fresh snow bonuses with the two upper bands exchanged
snow_new_24h_BandsSwapped(c) ==
    IF Truthy(c.new_snow_24h)
      THEN IF c.new_snow_24h >= 20
             THEN Step(200, <<"Fresh powder!">>, <<>>)
           ELSE IF c.new_snow_24h >= 10
             THEN Step(300, <<"Fresh snow">>, <<>>)
           ELSE IF c.new_snow_24h >= 5
             THEN Step(100, <<>>, <<>>)
           ELSE Step(0, <<>>, <<>>)
      ELSE Step(0, <<>>, <<>>)

snow_new_24h(c) ==
    IF Truthy(c.new_snow_24h)
      THEN IF c.new_snow_24h >= 20
             THEN Step(300, <<"Fresh powder!">>, <<>>)
           ELSE IF c.new_snow_24h >= 10
             THEN Step(200, <<"Fresh snow">>, <<>>)
           ELSE IF c.new_snow_24h >= 5
             THEN Step(100, <<>>, <<>>)
           ELSE Step(0, <<>>, <<>>)
      ELSE Step(0, <<>>, <<>>)

snow_new_7d(c) ==
    IF Truthy(c.new_snow_7d)
      THEN IF c.new_snow_7d >= 50
             THEN Step(100, <<"Great week of snow">>, <<>>)
           ELSE IF c.new_snow_7d >= 20
             THEN Step(50, <<>>, <<>>)
           ELSE Step(0, <<>>, <<>>)
      ELSE Step(0, <<>>, <<>>)

\* str.lower() on the quality labels of the model
Lower(q) ==
    CASE q = "Powder" -> "powder"
      [] q = "FRESH" -> "fresh"
      [] q = "Packed" -> "packed"
      [] q = "Groomed" -> "groomed"
      [] q = "Icy" -> "icy"
      [] q = "Hard" -> "hard"
      [] q = "Wet" -> "wet"
      [] q = "Spring" -> "spring"
      [] q = "Variable" -> "variable"
      [] q = "Unknown" -> "unknown"
      [] OTHER -> q

snow_quality_step(c) ==
    LET quality == Lower(c.snow_quality)
    IN  IF quality \in {"powder", "fresh"}
          THEN Step(150, <<"Powder conditions">>, <<>>)
        ELSE IF quality \in {"packed", "groomed"}
          THEN Step(50, <<"Well-groomed slopes">>, <<>>)
        ELSE IF quality \in {"icy", "hard"}
          THEN Step(-200, <<>>, <<"Icy conditions reported">>)
        ELSE IF quality \in {"wet", "spring"}
          THEN Step(-100, <<>>, <<"Wet/spring snow">>)
        ELSE Step(0, <<>>, <<>>)

score_snow(c) ==
    IF ~c.present
      THEN Result(SNOW_UNAVAILABLE_PENALTY, <<>>,
                  <<"Snow data unavailable - conditions unknown">>)
      ELSE LET b == snow_base_depth(c)
               n == snow_new_24h(c)
               w == snow_new_7d(c)
               q == snow_quality_step(c)
           IN  Result(Round1(Clamp(500 + b.d + n.d + w.d + q.d)),
                      b.h \o n.h \o w.h \o q.h,
                      b.c \o n.c \o w.c \o q.c)

\* the duration bands with inclusive upper bounds
transport_duration_Inclusive(j) ==
    LET m == j.duration_minutes
    IN  IF m <= 120 THEN Step(1000, <<"Quick journey">>, <<>>)
        ELSE IF m <= 150 THEN Step(850, <<"Good travel time">>, <<>>)
        ELSE IF m <= 180 THEN Step(700, <<"Reasonable travel time">>, <<>>)
        ELSE IF m <= 210 THEN Step(550, <<>>, <<>>)
        ELSE IF m <= 240 THEN Step(400, <<>>, <<"Long journey">>)
        ELSE Step(200, <<>>, <<"Very long journey">>)

\* hours = duration_minutes / 60; hours < 2 iff duration_minutes < 120
transport_duration(j) ==
    LET m == j.duration_minutes
    IN  IF m < 120 THEN Step(1000, <<"Quick journey">>, <<>>)
        ELSE IF m < 150 THEN Step(850, <<"Good travel time">>, <<>>)
        ELSE IF m < 180 THEN Step(700, <<"Reasonable travel time">>, <<>>)
        ELSE IF m < 210 THEN Step(550, <<>>, <<>>)
        ELSE IF m < 240 THEN Step(400, <<>>, <<"Long journey">>)
        ELSE Step(200, <<>>, <<"Very long journey">>)

transport_changes(j) ==
    IF j.changes = 0 THEN Step(50, <<"Direct connection">>, <<>>)
    ELSE IF j.changes = 1 THEN Step(0, <<>>, <<>>)
    ELSE IF j.changes = 2 THEN Step(-50, <<>>, <<>>)
    ELSE IF j.changes >= 3 THEN Step(-100, <<>>, <<"Multiple changes">>)
    ELSE Step(0, <<>>, <<>>)

score_transport(j) ==
    IF ~j.present
      THEN Result(TRANSPORT_UNAVAILABLE_SCORE, <<>>, <<"Transport data unavailable">>)
      ELSE LET d == transport_duration(j)
               c == transport_changes(j)
           IN  Result(Round1(Clamp(d.d + c.d)), d.h \o c.h, d.c \o c.c)

size_band(km) ==
    IF km >= 200 THEN Step(1000, <<"Massive ski area">>, <<>>)
    ELSE IF km >= 150 THEN Step(900, <<"Very large ski area">>, <<>>)
    ELSE IF km >= 100 THEN Step(800, <<"Large ski area">>, <<>>)
    ELSE IF km >= 70 THEN Step(700, <<"Good-sized ski area">>, <<>>)
    ELSE IF km >= 50 THEN Step(600, <<>>, <<>>)
    ELSE IF km >= 30 THEN Step(500, <<>>, <<>>)
    ELSE IF km >= 15 THEN Step(400, <<>>, <<"Small ski area">>)
    ELSE IF km >= 5 THEN Step(300, <<>>, <<"Very small ski area">>)
    ELSE Step(200, <<>>, <<"Tiny ski area">>)

score_size(resort) ==
    IF ~resort.present \/ resort.skiable_terrain_km = NoneInt
      THEN Result(SIZE_UNKNOWN_SCORE, <<>>, <<"Resort size unknown">>)
      ELSE LET b == size_band(resort.skiable_terrain_km)
           IN  Result(Round1(b.d), b.h, b.c)

\* truncation instead of rounding
RoundTotal_Truncate(x, up) == x \div 100

\* round(total, 1); total is a binary float, so a sum that is an exact tie in
\* decimal arithmetic sits just above or just below the tie: up tells which.
RoundTotal(x, up) ==
    LET q == x \div 100
        r == x % 100
    IN  IF r < 50 THEN q
        ELSE IF r > 50 THEN q + 1
        ELSE IF up THEN q + 1 ELSE q

calculate_total_score_Unweighted(weather_score, snow_score, transport_score, size_score, up) ==
    RoundTotal((weather_score + snow_score + transport_score + size_score) * SIZE_WEIGHT, up)

\* sub-scores in tenths, weights in hundredths: the sum is in thousandths
calculate_total_score(weather_score, snow_score, transport_score, size_score, up) ==
    RoundTotal(weather_score * WEATHER_WEIGHT
                 + snow_score * SNOW_WEIGHT
                 + transport_score * TRANSPORT_WEIGHT
                 + size_score * SIZE_WEIGHT, up)

score_resort(weather, snow, transport, resort, up) ==
    LET w == score_weather(weather)
        s == score_snow(snow)
        t == score_transport(transport)
        z == score_size(resort)
    IN  [total_score |-> calculate_total_score(w.score, s.score, t.score, z.score, up),
         weather_score |-> w.score,
         snow_score |-> s.score,
         transport_score |-> t.score,
         size_score |-> z.score,
         highlights |-> w.highlights \o s.highlights \o t.highlights \o z.highlights,
         concerns |-> w.concerns \o s.concerns \o t.concerns \o z.concerns]

----------------------------------------------------------------------------
(* The resort set and what the three sources answer for a resort when they *)
(* answer with a value.  Resort ids are the positions in the resort list.  *)

NResorts == 2

AllResorts == [i \in 1..NResorts |-> i]

UnknownId == 0

ResortOf(id) == [present |-> TRUE, id |-> id, skiable_terrain_km |-> 4]

ForecastOf(id) ==
    [present |-> TRUE, temperature_min |-> 3, temperature_max |-> 5,
     snowfall_cm |-> NoneInt, cloud_cover |-> 10, wind_speed |-> 51,
     precipitation_mm |-> 2, conditions |-> "light rain"]

ConditionsOf(id) ==
    [present |-> TRUE, snow_base |-> 160, new_snow_24h |-> 25,
     new_snow_7d |-> 50, snow_quality |-> "Powder"]

JourneyOf(id) == [present |-> TRUE, duration_minutes |-> 95, changes |-> 3]

Sources == {"weather", "snow", "transport"}

\* how a per-resort fetch ends: a value, None, or an exception
Outcomes == {"val", "none", "exc"}

NStreamResorts == 1
StreamResorts == SubSeq(AllResorts, 1, NStreamResorts)

MaxCount == 3

Counts == -1..MaxCount

----------------------------------------------------------------------------
(* services: the batch fetchers                                            *)

SNOW_CONCURRENCY == 5
TRANSPORT_CONCURRENCY == 10

\* the semaphore of the batch; the weather batch has none
Cap_Unlimited(src, n) == n

Cap(src, n) ==
    CASE src = "snow" -> SNOW_CONCURRENCY
      [] src = "transport" -> TRANSPORT_CONCURRENCY
      [] OTHER -> n

\* tasks = [fetch(resort) for resort in resorts]; gather starts them in list
\* order, each runs up to its network request or waits for the semaphore
StartTasks(src, n) ==
    [i \in 1..n |-> IF i <= Cap(src, n) THEN "inflight" ELSE "waiting"]

Waiting(ts) == {i \in DOMAIN ts : ts[i] = "waiting"}

\* the task i ends with outcome o and releases its slot to the first waiter
EndTask(ts, i, o) ==
    [j \in DOMAIN ts |->
        IF j = i THEN o
        ELSE IF j \in Waiting(ts) /\ \A k \in Waiting(ts) : j <= k THEN "inflight"
        ELSE ts[j]]

AllEnded(ts) == \A i \in DOMAIN ts : ts[i] \in Outcomes

\* asyncio.gather(*tasks, return_exceptions=...)
RETURN_EXCEPTIONS_Off == FALSE

RETURN_EXCEPTIONS == TRUE

gather_raises(ts) == ~RETURN_EXCEPTIONS /\ \E i \in DOMAIN ts : ts[i] = "exc"

\* the loop over results: an exception is logged, anything else is stored
\* under the resort id of its (resort_id, value) pair
batch_dict(rs, ts) ==
    LET kept == {i \in DOMAIN ts : ts[i] # "exc"}
    IN  [id \in {rs[i] : i \in kept} |->
            ts[CHOOSE i \in kept : rs[i] = id]]

NotReturned == [returned |-> FALSE, entries |-> <<>>]

Returns(entries) == [returned |-> TRUE, entries |-> entries]

----------------------------------------------------------------------------
(* core/recommender.py                                                     *)

\* dict.get(resort.id)
Get(entries, id) == IF id \in DOMAIN entries THEN entries[id] ELSE "none"

\* seq[:n]
SliceTo_Whole(seq, n) == seq

SliceTo(seq, n) ==
    LET stop == IF n >= 0 THEN Min2(n, Len(seq)) ELSE Max2(Len(seq) + n, 0)
    IN  SubSeq(seq, 1, stop)

TOP_ANNOTATIONS == 5

Recommendation(id, weather, snow, transport, sc, highlights, concerns) ==
    [resort |-> id,
     score |-> sc.total_score,
     weather_score |-> sc.weather_score,
     snow_score |-> sc.snow_score,
     transport_score |-> sc.transport_score,
     size_score |-> sc.size_score,
     weather_forecast |-> weather,
     snow_conditions |-> snow,
     journey |-> transport,
     highlights |-> highlights,
     concerns |-> concerns]

WeatherFor(o, id) == IF o = "val" THEN ForecastOf(id) ELSE NoForecast
SnowFor(o, id) == IF o = "val" THEN ConditionsOf(id) ELSE NoConditions
TransportFor(o, id) == IF o = "val" THEN JourneyOf(id) ELSE NoJourney

\* one pass of the scoring loop of generate_recommendations
ScoreOne(id, d, up) ==
    LET weather == WeatherFor(Get(d["weather"].entries, id), id)
        snow == SnowFor(Get(d["snow"].entries, id), id)
        transport == TransportFor(Get(d["transport"].entries, id), id)
        sc == score_resort(weather, snow, transport, ResortOf(id), up)
    IN  Recommendation(id, weather, snow, transport, sc,
                       SliceTo(sc.highlights, TOP_ANNOTATIONS),
                       SliceTo(sc.concerns, TOP_ANNOTATIONS))

\* the recommendation get_resort_details returns
DetailOne(id, dt, up) ==
    LET weather == WeatherFor(dt["weather"], id)
        snow == SnowFor(dt["snow"], id)
        transport == TransportFor(dt["transport"], id)
        sc == score_resort(weather, snow, transport, ResortOf(id), up)
    IN  Recommendation(id, weather, snow, transport, sc, sc.highlights, sc.concerns)

RECURSIVE InsertByScore_TiesFirst(_, _)
InsertByScore_TiesFirst(sorted, x) ==
    IF sorted = <<>> THEN <<x>>
    ELSE IF Head(sorted).score > x.score
      THEN <<Head(sorted)>> \o InsertByScore_TiesFirst(Tail(sorted), x)
    ELSE <<x>> \o sorted

\* x goes after every element whose score is at least its own
RECURSIVE InsertByScore(_, _)
InsertByScore(sorted, x) ==
    IF sorted = <<>> THEN <<x>>
    ELSE IF Head(sorted).score >= x.score
      THEN <<Head(sorted)>> \o InsertByScore(Tail(sorted), x)
    ELSE <<x>> \o sorted

\* recommendations.sort(key=lambda r: r.score, reverse=True): a stable sort
RECURSIVE SortByScore(_)
SortByScore(recs) ==
    IF recs = <<>> THEN <<>>
    ELSE InsertByScore(SortByScore(SubSeq(recs, 1, Len(recs) - 1)), recs[Len(recs)])

\* the parts _generate_fallback_summary puts into its text for the
\* recommendation rec: name, score, the weather text if there is a forecast,
\* hours and minutes of travel if there is a journey
FallbackParts(rec) ==
    [kind |-> "fallback",
     name |-> rec.resort,
     score |-> rec.score,
     weather |-> IF rec.weather_forecast.present
                   THEN <<rec.weather_forecast.conditions>> ELSE <<>>,
     travel |-> IF rec.journey.present
                  THEN <<rec.journey.duration_minutes \div 60,
                         rec.journey.duration_minutes % 60>>
                  ELSE <<>>]

fallback_summary_OfLast(recs) ==
    IF recs = <<>> THEN [kind |-> "unable"] ELSE FallbackParts(recs[Len(recs)])

\* _generate_fallback_summary
fallback_summary(recs) ==
    IF recs = <<>> THEN [kind |-> "unable"] ELSE FallbackParts(recs[1])

\* generate_recommendation_summary: the fixed text for an empty list, the
\* LLM's text, or the fallback when the LLM call raised
Summary(top, llm_ok) ==
    IF top = <<>> THEN [kind |-> "no_recommendations"]
    ELSE IF llm_ok THEN [kind |-> "llm"] ELSE fallback_summary(top)

NoResponse == [kind |-> "none"]
Raised == [kind |-> "error"]
NotFound == [kind |-> "not_found"]

NoDetail == [s \in Sources |-> "pending"]

----------------------------------------------------------------------------
(* utils/progress.py                                                       *)

ProgressUpdate(stage, current, total) ==
    [stage |-> stage, current |-> current, total |-> total]

\* ProgressTracker.__init__; "None" is the stage before the first set_stage
NewTracker == [stage |-> "None", current |-> 0, total |-> 0]

\* set_stage: the tracker after the call and the update it puts on the queue
set_stage_tracker(stage, total) == [stage |-> stage, current |-> 0, total |-> total]
set_stage_update(stage, total) == ProgressUpdate(stage, 0, total)

\* increment: nothing happens before the first set_stage
increment_tracker(tr, current, total) ==
    IF tr.stage = "None" THEN tr
    ELSE [stage |-> tr.stage, current |-> current, total |-> total]
\* increment returns without putting an update
increment_updates_Silent(tr, current, total) == <<>>

\* increment reports the tracker's count instead of the count it was given
increment_updates_StaleCount(tr, current, total) ==
    IF tr.stage = "None" THEN <<>>
    ELSE <<ProgressUpdate(tr.stage, tr.current, total)>>

increment_updates(tr, current, total) ==
    IF tr.stage = "None" THEN <<>>
    ELSE <<ProgressUpdate(tr.stage, current, total)>>

complete_update_Repeat == ProgressUpdate("generating_ai", 0, 0)

complete_update == ProgressUpdate("complete", 0, 0)

\* SimpleCache.__init__
EmptyCache == <<>>

IdleRequest ==
    /\ op = "none"
    /\ count = 0
    /\ pc = "idle"
    /\ resorts = <<>>
    /\ task = [s \in Sources |-> <<>>]
    /\ completed = [s \in Sources |-> 0]
    /\ data = [s \in Sources |-> NotReturned]
    /\ recommendations = <<>>
    /\ response = NoResponse
    /\ resort_id = UnknownId
    /\ detail = NoDetail
    /\ tracker = NewTracker
    /\ queue = <<>>
    /\ enqueued = <<>>
    /\ cpc = "idle"
    /\ emitted = <<>>
    /\ plan = <<>>
    /\ cache = EmptyCache
    /\ external = 0
    /\ calls = <<>>

IdleScore == fn = "none" /\ arg = <<>> /\ ret = NoResult

----------------------------------------------------------------------------
(* Inputs of the scoring functions: values on both sides of every          *)
(* threshold the scorers compare against.                                  *)

TempSamples == {-17, -15, -12, -3, 0, 2, 3, 5}
SnowfallSamples == {NoneInt, 0, 4, 5, 10, 20}
CloudSamples == {0, 29, 30, 49, 50, 80, 81}
WindSamples == {0, 19, 20, 35, 36, 50, 51}
PrecipSamples == {0, 2}

Forecasts ==
    {NoForecast} \cup
    {[present |-> TRUE, temperature_min |-> t[1], temperature_max |-> t[2],
      snowfall_cm |-> s, cloud_cover |-> c, wind_speed |-> w,
      precipitation_mm |-> p] :
        t \in {m \in TempSamples \X TempSamples : m[1] <= m[2]},
        s \in SnowfallSamples, c \in CloudSamples, w \in WindSamples,
        p \in PrecipSamples}

BaseSamples == {NoneInt, 0, 39, 40, 59, 60, 99, 100, 149, 150, 160}
New24hSamples == {NoneInt, 0, 4, 5, 10, 20, 25}
New7dSamples == {NoneInt, 0, 19, 20, 50}
QualitySamples == {"Powder", "FRESH", "Packed", "Groomed", "Icy", "Hard",
                   "Wet", "Spring", "Variable", "Unknown"}

Conditions ==
    {NoConditions} \cup
    {[present |-> TRUE, snow_base |-> b, new_snow_24h |-> n,
      new_snow_7d |-> w, snow_quality |-> q] :
        b \in BaseSamples, n \in New24hSamples, w \in New7dSamples,
        q \in QualitySamples}

DurationSamples == {0, 95, 119, 120, 149, 150, 179, 180, 209, 210, 239, 240, 300}
ChangesSamples == {0, 1, 2, 3, 4}

Journeys ==
    {NoJourney} \cup
    {[present |-> TRUE, duration_minutes |-> m, changes |-> c] :
        m \in DurationSamples, c \in ChangesSamples}

TerrainSamples == {NoneInt, 0, 4, 5, 14, 15, 29, 30, 49, 50, 69, 70, 99, 100,
                   149, 150, 199, 200, 210}

SizedResorts ==
    {NoResort} \cup
    {[present |-> TRUE, skiable_terrain_km |-> k] : k \in TerrainSamples}

SubScoreSamples == {s \in 0..100 : s % 10 = 0} \cup {5, 25, 33, 67, 85, 99}

Scorers == {"score_weather", "score_snow", "score_transport", "score_size"}

----------------------------------------------------------------------------
(* The four scorers applied to one input.                                  *)

InitScore ==
    /\ \/ fn = "score_weather" /\ arg \in Forecasts
       \/ fn = "score_snow" /\ arg \in Conditions
       \/ fn = "score_transport" /\ arg \in Journeys
       \/ fn = "score_size" /\ arg \in SizedResorts
    /\ ret = NoResult
    /\ IdleRequest
    /\ catalog = AllResorts

ScoreWeather ==
    /\ fn = "score_weather" /\ ret = NoResult
    /\ ret' = score_weather(arg)
    /\ UNCHANGED <<fn, arg>>
    /\ UNCHANGED reqVars

ScoreSnow ==
    /\ fn = "score_snow" /\ ret = NoResult
    /\ ret' = score_snow(arg)
    /\ UNCHANGED <<fn, arg>>
    /\ UNCHANGED reqVars

ScoreTransport ==
    /\ fn = "score_transport" /\ ret = NoResult
    /\ ret' = score_transport(arg)
    /\ UNCHANGED <<fn, arg>>
    /\ UNCHANGED reqVars

ScoreSize ==
    /\ fn = "score_size" /\ ret = NoResult
    /\ ret' = score_size(arg)
    /\ UNCHANGED <<fn, arg>>
    /\ UNCHANGED reqVars

NextScore == ScoreWeather \/ ScoreSnow \/ ScoreTransport \/ ScoreSize

SpecScore == InitScore /\ [][NextScore]_vars

----------------------------------------------------------------------------
(* calculate_total_score applied to four sub-scores.                       *)

InitTotal ==
    /\ fn = "calculate_total_score"
    /\ arg \in SubScoreSamples \X SubScoreSamples \X SubScoreSamples \X SubScoreSamples
    /\ ret = NoResult
    /\ IdleRequest
    /\ catalog = AllResorts

CalculateTotal ==
    /\ fn = "calculate_total_score" /\ ret = NoResult
    /\ \E up \in BOOLEAN :
          ret' = Result(calculate_total_score(arg[1], arg[2], arg[3], arg[4], up),
                        <<>>, <<>>)
    /\ UNCHANGED <<fn, arg>>
    /\ UNCHANGED reqVars

NextTotal == CalculateTotal

SpecTotal == InitTotal /\ [][NextTotal]_vars

----------------------------------------------------------------------------
(* Properties of the scoring engine.                                       *)

Returned == ret # NoResult

\* C1: every sub-score returned by score_weather, score_snow, score_transport
\* and score_size, for a present or an absent input, is a whole number of
\* tenths between 0.0 and 10.0.
ThmC1_SubScoreInRange ==
    (fn \in Scorers /\ Returned) => ret.score \in 0..100

\* the upper clamp acted: base 160, 25 cm in 24h and powder sum to 12.0
WitC1_ClampActed ==
    /\ fn = "score_snow" /\ Returned /\ arg.present
    /\ arg.snow_base = 160 /\ arg.new_snow_24h = 25 /\ arg.new_snow_7d = 50
    /\ arg.snow_quality = "Powder"
    /\ ret.score = 100

\* C2: the total is the weighted sum 0.20 w + 0.45 s + 0.10 t + 0.25 z rounded
\* to the nearest tenth, the weights sum to 1.0 and the total is in [0, 10].
ThmC2_WeightedSum ==
    /\ WEATHER_WEIGHT + SNOW_WEIGHT + TRANSPORT_WEIGHT + SIZE_WEIGHT = 100
    /\ (fn = "calculate_total_score" /\ Returned) =>
          LET exact == 20 * arg[1] + 45 * arg[2] + 10 * arg[3] + 25 * arg[4]
          IN  /\ ret.score \in 0..100
              /\ 100 * ret.score - exact \in -50..50

WitC2_TotalComputed ==
    /\ fn = "calculate_total_score" /\ Returned
    /\ arg = <<50, 100, 100, 100>> /\ ret.score = 90

\* C3: an absent forecast scores 5.0, absent snow conditions 2.5, an absent
\* journey 3.0, an absent resort or an unknown terrain size 5.0, each with no
\* highlight and exactly one concern.
ThmC3_AbsentDefaults ==
    Returned =>
      /\ (fn = "score_weather" /\ ~arg.present) =>
            ret.score = 50 /\ ret.highlights = <<>> /\ Len(ret.concerns) = 1
      /\ (fn = "score_snow" /\ ~arg.present) =>
            ret.score = 25 /\ ret.highlights = <<>> /\ Len(ret.concerns) = 1
      /\ (fn = "score_transport" /\ ~arg.present) =>
            ret.score = 30 /\ ret.highlights = <<>> /\ Len(ret.concerns) = 1
      /\ (fn = "score_size" /\ (~arg.present \/ arg.skiable_terrain_km = NoneInt)) =>
            ret.score = 50 /\ ret.highlights = <<>> /\ Len(ret.concerns) = 1

WitC3_AbsentSnowScored ==
    fn = "score_snow" /\ ~arg.present /\ Returned /\ ret.score = 25

----------------------------------------------------------------------------
(* Requests: generate_recommendations and get_resort_details.              *)

\* the scoring loop and the sort
ScoreAll(rs, d, ups) == SortByScore([i \in DOMAIN rs |-> ScoreOne(rs[i], d, ups[i])])

\* the rankings the loop can produce, over the ways the totals' ties round
Rankings(rs, d) == {ScoreAll(rs, d, ups) : ups \in [DOMAIN rs -> BOOLEAN]}

RecommendationsResponse(top, llm_ok) ==
    [kind |-> "recommendations", recommendations |-> top,
     ai_summary |-> Summary(top, llm_ok)]

\* what a batch returns: once its last task has ended the gather resumes it,
\* it builds its mapping and returns; nothing another coroutine does in
\* between touches the batch
BatchResult(rs, ts) ==
    IF AllEnded(ts) THEN Returns(batch_dict(rs, ts)) ELSE NotReturned

\* get_all_resorts, then the three batches are gathered and start their tasks
GenerateRecommendations ==
    /\ op = "none"
    /\ op' = "generate_recommendations"
    /\ \E loaded \in BOOLEAN :
         IF loaded
           THEN /\ resorts' = catalog
                /\ task' = [s \in Sources |-> StartTasks(s, Len(catalog))]
                /\ pc' = "gather"
                /\ UNCHANGED response
           ELSE /\ pc' = "raised"
                /\ response' = Raised
                /\ UNCHANGED <<resorts, task>>
    /\ UNCHANGED <<count, completed, data, recommendations>>
    /\ UNCHANGED <<detailVars, progressVars, streamVars, scoreVars, catalog, auxVars>>

\* a per-resort fetch of one of the three gathered batches ends
FetchEnd ==
    /\ op = "generate_recommendations" /\ pc = "gather"
    /\ \E src \in Sources, o \in Outcomes :
         \E i \in DOMAIN task[src] :
            /\ task[src][i] = "inflight"
            /\ LET ts == EndTask(task[src], i, o)
               IN  /\ task' = [task EXCEPT ![src] = ts]
                   /\ IF AllEnded(ts) /\ gather_raises(ts)
                        THEN /\ pc' = "raised"
                             /\ response' = Raised
                             /\ UNCHANGED data
                        ELSE /\ data' = [data EXCEPT ![src] = BatchResult(resorts, ts)]
                             /\ UNCHANGED <<pc, response>>
            /\ completed' = [completed EXCEPT ![src] = IF o = "exc" THEN @ ELSE @ + 1]
    /\ UNCHANGED <<op, count, resorts, recommendations>>
    /\ UNCHANGED <<detailVars, progressVars, streamVars, scoreVars, catalog, auxVars>>

\* the gather has all three mappings: score, sort, truncate, summarise,
\* return; num_recommendations, the request's count, is first read here
ScoreAndRespond ==
    /\ op = "generate_recommendations" /\ pc = "gather"
    /\ \A src \in Sources : data[src].returned
    /\ \E sorted \in Rankings(resorts, data) :
         \E n \in Counts, llm_ok \in BOOLEAN :
            /\ count' = n
            /\ recommendations' = sorted
            /\ response' = RecommendationsResponse(SliceTo(sorted, n), llm_ok)
    /\ pc' = "returned"
    /\ UNCHANGED <<op, fetchVars>>
    /\ UNCHANGED <<detailVars, progressVars, streamVars, scoreVars, catalog, auxVars>>

\* get_resort_by_id returns a resort, not None
get_resort_by_id_finds_Any(id, list) == TRUE

get_resort_by_id_finds(id, list) == \E i \in DOMAIN list : list[i] = id

\* what get_forecast, get_conditions and get_resort_journey hand to their
\* caller: a value or None; each catches every exception of its request
FetchOutcomes == {"val", "none"}

GetResortDetails ==
    /\ op = "none"
    /\ \E id \in {UnknownId} \cup {catalog[i] : i \in DOMAIN catalog} :
         /\ resort_id' = id
         /\ IF get_resort_by_id_finds(id, catalog)
              THEN pc' = "detail_weather" /\ UNCHANGED response
              ELSE pc' = "returned" /\ response' = NotFound
    /\ op' = "get_resort_details"
    /\ resorts' = catalog
    /\ UNCHANGED <<count, task, completed, data, recommendations, detail>>
    /\ UNCHANGED <<progressVars, streamVars, scoreVars, catalog, auxVars>>

DetailWeather ==
    /\ op = "get_resort_details" /\ pc = "detail_weather"
    /\ \E o \in FetchOutcomes :
         detail' = [detail EXCEPT !["weather"] = o]
    /\ pc' = "detail_snow"
    /\ UNCHANGED response
    /\ UNCHANGED <<op, count, fetchVars, recommendations, resort_id>>
    /\ UNCHANGED <<progressVars, streamVars, scoreVars, catalog, auxVars>>

DetailSnow ==
    /\ op = "get_resort_details" /\ pc = "detail_snow"
    /\ \E o \in FetchOutcomes :
         detail' = [detail EXCEPT !["snow"] = o]
    /\ pc' = "detail_transport"
    /\ UNCHANGED response
    /\ UNCHANGED <<op, count, fetchVars, recommendations, resort_id>>
    /\ UNCHANGED <<progressVars, streamVars, scoreVars, catalog, auxVars>>

\* the last fetch, then scoring and the untruncated Recommendation
DetailTransport ==
    /\ op = "get_resort_details" /\ pc = "detail_transport"
    /\ \E o \in FetchOutcomes, up \in BOOLEAN :
         /\ detail' = [detail EXCEPT !["transport"] = o]
         /\ response' = [kind |-> "detail",
                         recommendation |-> DetailOne(resort_id, detail', up)]
    /\ pc' = "returned"
    /\ UNCHANGED <<op, count, fetchVars, recommendations, resort_id>>
    /\ UNCHANGED <<progressVars, streamVars, scoreVars, catalog, auxVars>>

----------------------------------------------------------------------------
(* generate_recommendations_with_progress: the same steps one after the    *)
(* other, each announced on the progress queue.                            *)

WithProgress == op = "generate_recommendations_with_progress"

StageOf(src) ==
    CASE src = "weather" -> "fetching_weather"
      [] src = "snow" -> "scraping_snow"
      [] src = "transport" -> "fetching_transport"

\* the stage announced when the batch of src has returned
StageAfter(src) ==
    CASE src = "weather" -> "scraping_snow"
      [] src = "snow" -> "fetching_transport"
      [] src = "transport" -> "scoring"

\* the total passed with that stage
TotalAfter(src, n) == IF src = "transport" THEN 0 ELSE n

\* queue.put of each update; the history also keeps which call put it
Put(call, updates) ==
    /\ queue' = queue \o updates
    /\ enqueued' = enqueued \o [k \in DOMAIN updates |-> [call |-> call, update |-> updates[k]]]

\* a direct call of generate_recommendations_with_progress with a tracker
CallWithProgress ==
    /\ op = "none"
    /\ op' = "generate_recommendations_with_progress"
    /\ pc' = "start"
    /\ UNCHANGED <<count, fetchVars, recommendations, response>>
    /\ UNCHANGED <<detailVars, progressVars, streamVars, scoreVars, catalog, auxVars>>

\* stage 1 is announced
AnnounceLoading ==
    /\ WithProgress /\ pc = "start"
    /\ tracker' = set_stage_tracker("loading_resorts", 0)
    /\ Put("set_stage", <<set_stage_update("loading_resorts", 0)>>)
    /\ pc' = "loading_resorts"
    /\ UNCHANGED <<op, count, fetchVars, recommendations, response>>
    /\ UNCHANGED <<detailVars, streamVars, scoreVars, catalog, auxVars>>

\* get_all_resorts, then stage 2 is announced
LoadResorts ==
    /\ WithProgress /\ pc = "loading_resorts"
    /\ \E loaded \in BOOLEAN :
         IF loaded
           THEN /\ resorts' = catalog
                /\ tracker' = set_stage_tracker("fetching_weather", Len(catalog))
                /\ Put("set_stage", <<set_stage_update("fetching_weather", Len(catalog))>>)
                /\ pc' = "fetching_weather"
                /\ UNCHANGED response
           ELSE /\ pc' = "raised"
                /\ response' = Raised
                /\ UNCHANGED <<resorts, progressVars>>
    /\ UNCHANGED <<op, count, task, completed, data, recommendations>>
    /\ UNCHANGED <<detailVars, streamVars, scoreVars, catalog, auxVars>>

\* the batch of the announced stage is called and starts its tasks
StartBatch ==
    /\ WithProgress
    /\ \E src \in Sources :
         /\ pc = StageOf(src)
         /\ task[src] = <<>>
         /\ task' = [task EXCEPT ![src] = StartTasks(src, Len(resorts))]
    /\ UNCHANGED <<op, count, pc, resorts, completed, data, recommendations, response>>
    /\ UNCHANGED <<detailVars, progressVars, streamVars, scoreVars, catalog, auxVars>>

\* a per-resort fetch ends and reports through on_progress = progress.increment;
\* when it was the last one the batch returns and the next stage is announced
FetchEndWithProgress ==
    /\ WithProgress
    /\ \E src \in Sources, o \in Outcomes :
         \E i \in DOMAIN task[src] :
            /\ pc = StageOf(src)
            /\ task[src][i] = "inflight"
            /\ LET ts == EndTask(task[src], i, o)
                   done == IF o = "exc" THEN completed[src] ELSE completed[src] + 1
                   total == Len(resorts)
                   incs == IF o = "exc" THEN <<>>
                           ELSE increment_updates(tracker, done, total)
                   tr == IF o = "exc" THEN tracker
                         ELSE increment_tracker(tracker, done, total)
                   next == set_stage_update(StageAfter(src), TotalAfter(src, total))
               IN  /\ task' = [task EXCEPT ![src] = ts]
                   /\ completed' = [completed EXCEPT ![src] = done]
                   /\ queue' = queue \o incs
                               \o (IF AllEnded(ts) /\ ~gather_raises(ts) THEN <<next>> ELSE <<>>)
                   /\ enqueued' = enqueued
                         \o [k \in DOMAIN incs |-> [call |-> "increment", update |-> incs[k]]]
                         \o (IF AllEnded(ts) /\ ~gather_raises(ts)
                               THEN <<[call |-> "set_stage", update |-> next]>> ELSE <<>>)
                   /\ IF ~AllEnded(ts)
                        THEN /\ tracker' = tr
                             /\ UNCHANGED <<pc, data, response>>
                      ELSE IF gather_raises(ts)
                        THEN /\ tracker' = tr
                             /\ pc' = "raised"
                             /\ response' = Raised
                             /\ UNCHANGED data
                      ELSE /\ data' = [data EXCEPT ![src] = BatchResult(resorts, ts)]
                           /\ tracker' = set_stage_tracker(StageAfter(src), TotalAfter(src, total))
                           /\ pc' = StageAfter(src)
                           /\ UNCHANGED response
    /\ UNCHANGED <<op, count, resorts, recommendations>>
    /\ UNCHANGED <<detailVars, streamVars, scoreVars, catalog, auxVars>>

\* stage 5: score, sort and truncate to num_recommendations, the request's
\* count, which is first read here; then stage 6 is announced
ScoreWithProgress ==
    /\ WithProgress /\ pc = "scoring"
    /\ \E sorted \in Rankings(resorts, data) :
         \E n \in Counts :
            /\ count' = n
            /\ recommendations' = sorted
    /\ tracker' = set_stage_tracker("generating_ai", 0)
    /\ Put("set_stage", <<set_stage_update("generating_ai", 0)>>)
    /\ pc' = "generating_ai"
    /\ UNCHANGED <<op, fetchVars, response>>
    /\ UNCHANGED <<detailVars, streamVars, scoreVars, catalog, auxVars>>

\* stage 6: the summary; then complete() is put on the queue and the
\* response is returned
SummarizeWithProgress ==
    /\ WithProgress /\ pc = "generating_ai"
    /\ \E llm_ok \in BOOLEAN :
         response' = RecommendationsResponse(SliceTo(recommendations, count), llm_ok)
    /\ Put("complete", <<complete_update>>)
    /\ pc' = "returned"
    /\ UNCHANGED <<op, count, fetchVars, recommendations, tracker>>
    /\ UNCHANGED <<detailVars, streamVars, scoreVars, catalog, auxVars>>

----------------------------------------------------------------------------
(* main.py: stream_recommendations.event_generator, the consumer of the    *)
(* progress queue, next to the task that runs the generation.              *)

\* the task counts as done only when it returned
task_done_OnReturnOnly == pc = "returned"

\* task.done()
task_done == pc \in {"returned", "raised"}

\* progress.queue.empty()
queue_empty_Always(q) == TRUE

queue_empty(q) == q = <<>>

ProgressEvent(update) == [type |-> "progress", data |-> update]
ResultEvent(result) == [type |-> "result", data |-> result]
ErrorEvent == [type |-> "error", data |-> Raised]

\* the endpoint creates the tracker and the task, then enters its loop
StreamRecommendations ==
    /\ op = "none"
    /\ op' = "generate_recommendations_with_progress"
    /\ pc' = "start"
    /\ cpc' = "loop"
    /\ UNCHANGED <<count, fetchVars, recommendations, response, emitted>>
    /\ UNCHANGED <<detailVars, progressVars, scoreVars, catalog, auxVars>>

\* while not task.done(): enter wait_for(progress.queue.get(), 0.5)
ConsumerCheck ==
    /\ cpc = "loop"
    /\ cpc' = IF task_done THEN "drain" ELSE "waiting"
    /\ UNCHANGED <<op, count, pc, fetchVars, recommendations, response, emitted>>
    /\ UNCHANGED <<detailVars, progressVars, scoreVars, catalog, auxVars>>

\* the get returns the oldest update, which is yielded as a progress event
ConsumerGet ==
    /\ cpc = "waiting"
    /\ queue # <<>>
    /\ queue' = Tail(queue)
    /\ emitted' = Append(emitted, ProgressEvent(Head(queue)))
    /\ cpc' = "loop"
    /\ UNCHANGED <<op, count, pc, fetchVars, recommendations, response>>
    /\ UNCHANGED <<detailVars, tracker, enqueued, scoreVars, catalog, auxVars>>

\* the 0.5 s pass first: TimeoutError, continue
ConsumerTimeout ==
    /\ cpc = "waiting"
    /\ cpc' = "loop"
    /\ UNCHANGED <<op, count, pc, fetchVars, recommendations, response, emitted>>
    /\ UNCHANGED <<detailVars, progressVars, scoreVars, catalog, auxVars>>

\* while not progress.queue.empty(): get and yield
ConsumerDrain ==
    /\ cpc = "drain"
    /\ IF queue_empty(queue)
         THEN /\ cpc' = "final"
              /\ UNCHANGED <<queue, emitted>>
         ELSE /\ queue' = Tail(queue)
              /\ emitted' = Append(emitted, ProgressEvent(Head(queue)))
              /\ UNCHANGED cpc
    /\ UNCHANGED <<op, count, pc, fetchVars, recommendations, response>>
    /\ UNCHANGED <<detailVars, tracker, enqueued, scoreVars, catalog, auxVars>>

\* result = await task: the result event, or the error event when it raised
ConsumerFinal ==
    /\ cpc = "final"
    /\ emitted' = Append(emitted, IF pc = "raised" THEN ErrorEvent
                                  ELSE ResultEvent(response))
    /\ cpc' = "closed"
    /\ UNCHANGED <<op, count, pc, fetchVars, recommendations, response>>
    /\ UNCHANGED <<detailVars, progressVars, scoreVars, catalog, auxVars>>

Init == IdleScore /\ IdleRequest /\ catalog = AllResorts

Next ==
    \/ GenerateRecommendations
    \/ FetchEnd
    \/ ScoreAndRespond
    \/ GetResortDetails
    \/ DetailWeather
    \/ DetailSnow
    \/ DetailTransport
    \/ CallWithProgress
    \/ AnnounceLoading
    \/ LoadResorts
    \/ StartBatch
    \/ FetchEndWithProgress
    \/ ScoreWithProgress
    \/ SummarizeWithProgress

Spec == Init /\ [][Next]_vars

NextStream ==
    \/ StreamRecommendations
    \/ AnnounceLoading
    \/ LoadResorts
    \/ StartBatch
    \/ FetchEndWithProgress
    \/ ScoreWithProgress
    \/ SummarizeWithProgress
    \/ ConsumerCheck
    \/ ConsumerGet
    \/ ConsumerTimeout
    \/ ConsumerDrain
    \/ ConsumerFinal

\* the streamed runs are explored over a shorter resort list
InitStream == IdleScore /\ IdleRequest /\ catalog = StreamResorts

SpecStream == InitStream /\ [][NextStream]_vars

----------------------------------------------------------------------------
(* Claims about the orchestrators, checked under Spec.                     *)

Generating ==
    op \in {"generate_recommendations", "generate_recommendations_with_progress"}

\* how the fetch of source src for the resort at position i of the list ended
Ended(src, i) == IF task[src][i] = "val" THEN "val" ELSE "none"

InFlight(src) == \E i \in DOMAIN task[src] : task[src][i] = "inflight"

\* the generation has a next step: a fetch in flight that can end, a batch
\* to start, or everything at hand for the step its position names
CanProceed ==
    IF op = "generate_recommendations"
      THEN \/ \E src \in Sources : InFlight(src)
           \/ \A src \in Sources : data[src].returned
      ELSE \/ pc \in {"start", "loading_resorts", "scoring", "generating_ai"}
           \/ \E src \in Sources :
                 pc = StageOf(src) /\ (task[src] = <<>> \/ InFlight(src))

\* C4: once the resorts are loaded a generation never aborts and can always
\* take its next step; when it returns it has built exactly one
\* Recommendation per resort, whose weather, snow and transport data is the
\* fetched value when that resort's fetch gave one and absent when the fetch
\* gave nothing or raised, independently of the other resorts.
ThmC4_EveryResortScored ==
    Generating =>
      /\ pc = "raised" => resorts = <<>>
      /\ pc \notin {"returned", "raised"} => CanProceed
      /\ pc = "returned" =>
           /\ Len(recommendations) = Len(resorts)
           /\ \A i \in DOMAIN resorts :
                \E k \in DOMAIN recommendations :
                   /\ recommendations[k].resort = resorts[i]
                   /\ recommendations[k].weather_forecast
                        = WeatherFor(Ended("weather", i), resorts[i])
                   /\ recommendations[k].snow_conditions
                        = SnowFor(Ended("snow", i), resorts[i])
                   /\ recommendations[k].journey
                        = TransportFor(Ended("transport", i), resorts[i])

\* a request returned although one fetch raised, one gave nothing, one a value
WitC4_ReturnedDespiteFailure ==
    /\ op = "generate_recommendations" /\ pc = "returned"
    /\ task["weather"][1] = "exc" /\ task["snow"][1] = "none"
    /\ task["transport"][1] = "val" /\ task["weather"][2] = "val"
    /\ Len(recommendations) = NResorts

\* C5: a batch whose per-resort fetch raised returns a mapping with one
\* entry per input resort.
CexC5_OneEntryPerResort ==
    \A src \in Sources :
       data[src].returned =>
          DOMAIN data[src].entries = {resorts[i] : i \in DOMAIN resorts}

\* position of a resort id in the resort list
PositionOf(id) == CHOOSE i \in DOMAIN resorts : resorts[i] = id

\* C6: the recommendations are ordered by total score, highest first, equal
\* totals in the order of the resort list; the response is a prefix of that
\* order and, for a count that is not negative, its first count elements.
ThmC6_RankedStable ==
    (Generating /\ pc = "returned") =>
      /\ \A i, j \in DOMAIN recommendations :
           i < j =>
             /\ recommendations[i].score >= recommendations[j].score
             /\ recommendations[i].score = recommendations[j].score =>
                  PositionOf(recommendations[i].resort)
                    < PositionOf(recommendations[j].resort)
      /\ Len(response.recommendations) <= Len(recommendations)
      /\ response.recommendations
           = SubSeq(recommendations, 1, Len(response.recommendations))
      /\ count >= 0 =>
           Len(response.recommendations) = Min2(count, Len(recommendations))

\* two resorts tie, the request asks for one: the first of the list is returned
WitC6_TieCutByCount ==
    /\ op = "generate_recommendations" /\ pc = "returned"
    /\ count = 1
    /\ recommendations[1].score = recommendations[2].score
    /\ Len(response.recommendations) = 1
    /\ response.recommendations[1].resort = resorts[1]

\* C7: the response holds exactly min(max(count, 0), N) recommendations and
\* never more than count.
CexC7_CountRespected ==
    (Generating /\ pc = "returned") =>
      /\ Len(response.recommendations) = Min2(Max2(count, 0), Len(resorts))
      /\ Len(response.recommendations) <= Max2(count, 0)

\* score_resort's complete lists for the data a recommendation carries
Full(rec) ==
    score_resort(rec.weather_forecast, rec.snow_conditions, rec.journey,
                 ResortOf(rec.resort), TRUE)

FirstFive(seq) == IF Len(seq) <= 5 THEN seq ELSE <<seq[1], seq[2], seq[3], seq[4], seq[5]>>

\* C8: a Recommendation of generate_recommendations has at most 5 highlights
\* and at most 5 concerns, the first 5 of score_resort's lists; the one of
\* get_resort_details carries score_resort's complete lists.
ThmC8_AnnotationsCapped ==
    /\ (Generating /\ pc = "returned") =>
         \A k \in DOMAIN recommendations :
            LET full == Full(recommendations[k])
            IN  /\ Len(recommendations[k].highlights) <= 5
                /\ Len(recommendations[k].concerns) <= 5
                /\ recommendations[k].highlights = FirstFive(full.highlights)
                /\ recommendations[k].concerns = FirstFive(full.concerns)
    /\ (op = "get_resort_details" /\ response.kind = "detail") =>
         LET full == Full(response.recommendation)
         IN  /\ response.recommendation.highlights = full.highlights
             /\ response.recommendation.concerns = full.concerns

\* the detail view of a resort with six highlights and six concerns
WitC8_DetailLongerThanFive ==
    /\ op = "get_resort_details" /\ response.kind = "detail"
    /\ Len(response.recommendation.highlights) > 5
    /\ Len(response.recommendation.concerns) > 5

\* a batch recommendation whose lists were cut to five
WitC8_BatchCutToFive ==
    /\ op = "generate_recommendations" /\ pc = "returned"
    /\ \E k \in DOMAIN recommendations :
          /\ Len(Full(recommendations[k]).highlights) > 5
          /\ Len(recommendations[k].highlights) = 5

\* the stages in the order the spec gives them
StageSequence ==
    <<"loading_resorts", "fetching_weather", "scraping_snow",
      "fetching_transport", "scoring", "generating_ai", "complete">>

IsTransition(e) == e.call \in {"set_stage", "complete"}

\* the stages of the stage-transition messages put on the queue so far
Transitions ==
    LET t == SelectSeq(enqueued, IsTransition)
    IN  [k \in DOMAIN t |-> t[k].update.stage]

\* C9: the stage-transition messages put on the queue are at every moment a
\* prefix of the stage sequence; a run that returned has put the whole
\* sequence, and the complete message is the last message of the queue's
\* history.
ThmC9_StagesInOrder ==
    WithProgress =>
      /\ Len(Transitions) <= Len(StageSequence)
      /\ Transitions = SubSeq(StageSequence, 1, Len(Transitions))
      /\ pc = "returned" =>
           /\ Transitions = StageSequence
           /\ enqueued[Len(enqueued)].update.stage = "complete"

\* a run returned with every fetch reported between the stage messages
WitC9_WholeSequence ==
    /\ WithProgress /\ pc = "returned"
    /\ Len(enqueued) = Len(StageSequence) + 3 * NResorts

\* a run that raised while loading the resorts put only the first stage
WitC9_StoppedAfterFirst ==
    /\ WithProgress /\ pc = "raised"
    /\ Transitions = <<"loading_resorts">>

----------------------------------------------------------------------------
(* Claims about the streaming endpoint, checked under SpecStream.          *)

ProgressData(events) ==
    LET p == SelectSeq(events, LAMBDA e : e.type = "progress")
    IN  [k \in DOMAIN p |-> p[k].data]

Updates(history) == [k \in DOMAIN history |-> history[k].update]

\* C10: the progress events emitted so far followed by what is still in the
\* queue are the updates enqueued so far, in enqueue order; a result event
\* is the last event, and when it is emitted every enqueued update has been
\* emitted as a progress event before it and the queue is empty.
ThmC10_ProgressBeforeResult ==
    /\ ProgressData(emitted) \o queue = Updates(enqueued)
    /\ \A k \in DOMAIN emitted :
          emitted[k].type = "result" =>
             /\ k = Len(emitted)
             /\ queue = <<>>
             /\ ProgressData(SubSeq(emitted, 1, k - 1)) = Updates(enqueued)
             /\ Len(emitted) = Len(enqueued) + 1

\* the stream closed with its result after the consumer had stayed behind:
\* the task was done with updates left for the drain loop
WitC10_ResultAfterAll ==
    /\ cpc = "closed"
    /\ emitted # <<>>
    /\ emitted[Len(emitted)].type = "result"
    /\ Len(emitted) = Len(StageSequence) + 3 * NStreamResorts + 1

\* the task is done and the drain loop still has updates to emit
WitC10_Draining ==
    /\ cpc = "drain" /\ pc = "returned"
    /\ Len(queue) >= 2

----------------------------------------------------------------------------
(* Concurrency of the three batches, checked under Spec.                   *)

\* the batch of src has been called and has created its per-resort tasks
BatchStarted(src) == task[src] # <<>>

\* C11: in both generation functions the three batches run concurrently:
\* while a weather fetch of the request is in flight the snow and transport
\* batches have been started too; and recommendations are scored only when
\* all three batches have returned.
CexC11_BatchesConcurrent ==
    Generating =>
      /\ InFlight("weather") => BatchStarted("snow") /\ BatchStarted("transport")
      /\ recommendations # <<>> => \A src \in Sources : data[src].returned

----------------------------------------------------------------------------
(* One batch fetch called on its own, over more resorts than its semaphore *)
(* admits at a time.                                                       *)

NBatch == 11

BatchResorts(n) == [i \in 1..n |-> i]

OutcomeCycle == <<"val", "none", "exc">>

\* how the fetches of a batch of n resorts end: all alike, or in turn
Plans(n) ==
    {[i \in 1..n |-> o] : o \in Outcomes}
      \cup {[i \in 1..n |-> OutcomeCycle[((i + k) % 3) + 1]] : k \in 0..2}

\* get_forecasts_batch, get_conditions_batch or get_journeys_batch is called
BatchCall ==
    /\ op = "none"
    /\ \E src \in Sources, n \in 1..NBatch :
         \E p \in Plans(n) :
            /\ resorts' = BatchResorts(n)
            /\ task' = [task EXCEPT ![src] = StartTasks(src, n)]
            /\ plan' = p
    /\ op' = "batch"
    /\ pc' = "gather"
    /\ UNCHANGED <<count, completed, data, recommendations, response>>
    /\ UNCHANGED <<detailVars, progressVars, streamVars, scoreVars, catalog, cache, external,
                   calls>>

\* a per-resort fetch ends and leaves the semaphore, the first waiter enters;
\* after the last one the batch returns its mapping
BatchFetchEnd ==
    /\ op = "batch" /\ pc = "gather"
    /\ \E src \in Sources :
         \E i \in DOMAIN task[src] :
            /\ task[src][i] = "inflight"
            /\ LET ts == EndTask(task[src], i, plan[i])
               IN  /\ task' = [task EXCEPT ![src] = ts]
                   /\ completed' = [completed EXCEPT ![src] =
                                       IF plan[i] = "exc" THEN @ ELSE @ + 1]
                   /\ IF AllEnded(ts) /\ gather_raises(ts)
                        THEN /\ pc' = "raised"
                             /\ response' = Raised
                             /\ UNCHANGED data
                      ELSE /\ data' = [data EXCEPT ![src] = BatchResult(resorts, ts)]
                           /\ pc' = IF AllEnded(ts) THEN "returned" ELSE pc
                           /\ UNCHANGED response
    /\ UNCHANGED <<op, count, resorts, recommendations>>
    /\ UNCHANGED <<detailVars, progressVars, streamVars, scoreVars, catalog, auxVars>>

NextBatch == BatchCall \/ BatchFetchEnd

SpecBatch == Init /\ [][NextBatch]_vars

NumInFlight(src) == Cardinality({i \in DOMAIN task[src] : task[src][i] = "inflight"})

\* the limit the spec gives for src; the weather batch has none
SpecLimit(src, n) ==
    CASE src = "snow" -> 5
      [] src = "transport" -> 10
      [] OTHER -> n

\* C12: in a batch at most 5 snow fetches and at most 10 transport fetches
\* are in flight at any moment; a fetch waits only while the limit is
\* reached, so a fetch that ends, however it ends, lets the next one start;
\* while fetches remain one is in flight, and the batch returns only when
\* every resort's fetch has run.
ThmC12_ConcurrencyCapped ==
    op = "batch" =>
      \A src \in Sources :
         /\ NumInFlight(src) <= SpecLimit(src, Len(task[src]))
         /\ Waiting(task[src]) # {} => NumInFlight(src) = SpecLimit(src, Len(task[src]))
         /\ (BatchStarted(src) /\ ~AllEnded(task[src])) => InFlight(src)
         /\ pc = "returned" => AllEnded(task[src])

\* a snow fetch that raised has given its slot to the sixth resort's fetch
\* while the seventh still waits
WitC12_SlotReusedAfterFailure ==
    /\ op = "batch"
    /\ Len(task["snow"]) >= 7
    /\ \E i \in 1..5 : task["snow"][i] = "exc"
    /\ task["snow"][6] = "inflight"
    /\ task["snow"][7] = "waiting"
    /\ NumInFlight("snow") = 5

----------------------------------------------------------------------------
(* main.py: the endpoints that take a target date.  fn is the endpoint,    *)
(* arg its request, ret the HTTP response, op the recommender or service   *)
(* call the handler has started.                                           *)

Endpoints ==
    {"get_recommendations", "stream_recommendations", "get_resort_recommendation",
     "get_resort_weather", "get_transport"}

\* a target_date parameter: not given, the empty string, or a text in ISO
\* form (YYYY-MM-DD) or in another form, naming a month and a day
NoDate == [form |-> "absent", month |-> 0, day |-> 0]
DateTexts ==
    {NoDate, [form |-> "empty", month |-> 0, day |-> 0]}
      \cup [form : {"iso", "other"}, month : {1, 2, 13}, day : {0, 18, 30, 31}]

DaysIn(month) == IF month = 2 THEN 28 ELSE 31

\* the string is truthy: `if request.target_date:`
DateGiven(d) == d.form \notin {"absent", "empty"}

\* date.fromisoformat(text) returns a date; otherwise it raises ValueError
fromisoformat_ok(d) ==
    /\ d.form = "iso"
    /\ d.month \in 1..12
    /\ d.day \in 1..DaysIn(d.month)

EndpointRequests == [date : DateTexts, known : BOOLEAN]

Http(status) == [status |-> status]
NoHttp == [status |-> "none"]

\* the call the handler awaits once the request is accepted
CallOf(endpoint) ==
    CASE endpoint = "get_recommendations" -> "generate_recommendations"
      [] endpoint = "stream_recommendations" -> "generate_recommendations_with_progress"
      [] endpoint = "get_resort_recommendation" -> "get_resort_details"
      [] endpoint = "get_resort_weather" -> "get_forecast"
      [] endpoint = "get_transport" -> "get_resort_journey"

InitEndpoint ==
    /\ fn \in Endpoints
    /\ arg \in EndpointRequests
    /\ ret = NoHttp
    /\ IdleRequest
    /\ catalog = AllResorts

\* the handler's except clauses: what an HTTPException(400) raised by the
\* date parsing becomes
except_Exception(status) == 500

\* POST /api/recommendations: the date is parsed inside the try whose only
\* handler is `except Exception`
HandleGetRecommendations ==
    /\ fn = "get_recommendations" /\ pc = "idle"
    /\ IF DateGiven(arg.date) /\ ~fromisoformat_ok(arg.date)
         THEN ret' = Http(except_Exception(400)) /\ pc' = "done" /\ UNCHANGED op
         ELSE op' = CallOf(fn) /\ pc' = "awaiting" /\ UNCHANGED ret
    /\ UNCHANGED <<fn, arg, count, fetchVars, recommendations, response>>
    /\ UNCHANGED <<detailVars, progressVars, streamVars, catalog, auxVars>>

\* POST /api/recommendations/stream: the date is parsed outside any try,
\* before the StreamingResponse is built
HandleStreamRecommendations ==
    /\ fn = "stream_recommendations" /\ pc = "idle"
    /\ IF DateGiven(arg.date) /\ ~fromisoformat_ok(arg.date)
         THEN ret' = Http(400) /\ pc' = "done" /\ UNCHANGED op
         ELSE op' = CallOf(fn) /\ pc' = "awaiting" /\ UNCHANGED ret
    /\ UNCHANGED <<fn, arg, count, fetchVars, recommendations, response>>
    /\ UNCHANGED <<detailVars, progressVars, streamVars, catalog, auxVars>>

\* GET /api/recommendations/{resort_id}: `except HTTPException: raise`
\* comes before `except Exception`
HandleGetResortRecommendation ==
    /\ fn = "get_resort_recommendation" /\ pc = "idle"
    /\ IF DateGiven(arg.date) /\ ~fromisoformat_ok(arg.date)
         THEN ret' = Http(400) /\ pc' = "done" /\ UNCHANGED op
         ELSE op' = CallOf(fn) /\ pc' = "awaiting" /\ UNCHANGED ret
    /\ UNCHANGED <<fn, arg, count, fetchVars, recommendations, response>>
    /\ UNCHANGED <<detailVars, progressVars, streamVars, catalog, auxVars>>

\* GET /api/weather/{resort_id} and GET /api/transport: the resort is looked
\* up first, then the date is parsed under `except HTTPException: raise`
HandleResortQuery ==
    /\ fn \in {"get_resort_weather", "get_transport"} /\ pc = "idle"
    /\ IF ~arg.known
         THEN ret' = Http(404) /\ pc' = "done" /\ UNCHANGED op
       ELSE IF DateGiven(arg.date) /\ ~fromisoformat_ok(arg.date)
         THEN ret' = Http(400) /\ pc' = "done" /\ UNCHANGED op
       ELSE op' = CallOf(fn) /\ pc' = "awaiting" /\ UNCHANGED ret
    /\ UNCHANGED <<fn, arg, count, fetchVars, recommendations, response>>
    /\ UNCHANGED <<detailVars, progressVars, streamVars, catalog, auxVars>>

\* the awaited call returns a value, returns None, or raises
CallOutcomes == {"value", "none", "raises"}

\* the status the handler answers with
StatusAfter(endpoint, outcome) ==
    CASE endpoint = "stream_recommendations" -> 200
      [] outcome = "raises" -> 500
      [] outcome = "value" -> 200
      [] endpoint = "get_resort_recommendation" -> 404
      [] OTHER -> 503

HandlerReturns ==
    /\ fn \in Endpoints /\ pc = "awaiting"
    /\ \E outcome \in CallOutcomes :
         /\ outcome = "none" =>
               fn \in {"get_resort_recommendation", "get_resort_weather", "get_transport"}
         /\ (outcome = "value" /\ fn = "get_resort_recommendation") => arg.known
         /\ (outcome = "none" /\ fn = "get_resort_recommendation") => ~arg.known
         /\ ret' = Http(StatusAfter(fn, outcome))
    /\ pc' = "done"
    /\ UNCHANGED <<fn, arg, op, count, fetchVars, recommendations, response>>
    /\ UNCHANGED <<detailVars, progressVars, streamVars, catalog, auxVars>>

NextEndpoint ==
    \/ HandleGetRecommendations
    \/ HandleStreamRecommendations
    \/ HandleGetResortRecommendation
    \/ HandleResortQuery
    \/ HandlerReturns

SpecEndpoint == InitEndpoint /\ [][NextEndpoint]_vars

\* C13: a request whose target date was given and does not parse is
\* answered with 400, whatever the endpoint, and the handler has started no
\* generation and no fetch.  (Stated for a resort the service knows: the
\* weather and transport endpoints look the resort up before the date.)
CexC13_BadDateIsClientError ==
    (/\ fn \in Endpoints
     /\ DateGiven(arg.date) /\ ~fromisoformat_ok(arg.date)
     /\ arg.known
     /\ pc = "done")
      => ret = Http(400) /\ op = "none"

----------------------------------------------------------------------------
(* get_resort_details, checked under Spec.                                 *)

Fetched(src) == detail[src] # "pending"

\* C14: for an id that is not in the resort set get_resort_details returns
\* None, surfaced as 404, having fetched nothing and built no
\* Recommendation; for a known id it never raises, fetches weather, then
\* snow, then transport, and returns a Recommendation of that resort built
\* from the three answers.
ThmC14_DetailsLookup ==
    op = "get_resort_details" =>
      /\ pc # "raised"
      /\ Fetched("snow") => Fetched("weather")
      /\ Fetched("transport") => Fetched("snow")
      /\ ~(\E i \in DOMAIN catalog : catalog[i] = resort_id) =>
           /\ pc = "returned" /\ response = NotFound
           /\ \A src \in Sources : ~Fetched(src)
           /\ StatusAfter("get_resort_recommendation", "none") = 404
      /\ ((\E i \in DOMAIN catalog : catalog[i] = resort_id) /\ pc = "returned") =>
           /\ \A src \in Sources : Fetched(src)
           /\ response.kind = "detail"
           /\ response.recommendation.resort = resort_id
           /\ response.recommendation.weather_forecast = WeatherFor(detail["weather"], resort_id)
           /\ response.recommendation.snow_conditions = SnowFor(detail["snow"], resort_id)
           /\ response.recommendation.journey = TransportFor(detail["transport"], resort_id)

\* the unknown id was answered with None and nothing was fetched
WitC14_UnknownNotFound ==
    /\ op = "get_resort_details" /\ resort_id = UnknownId
    /\ response = NotFound
    /\ detail = NoDetail

\* a known resort whose three sources all answered None still got its
\* Recommendation
WitC14_KnownAllAbsent ==
    /\ op = "get_resort_details" /\ pc = "returned"
    /\ \A src \in Sources : detail[src] = "none"
    /\ response.kind = "detail"

----------------------------------------------------------------------------
(* The summarizer's failure, checked under Spec.                           *)

\* C15: a generation raises only before anything is scored, so never
\* because of the summarizer; when the LLM call failed the response is a
\* normal one whose summary names the first recommendation of the response
\* and its score, carries that recommendation's weather text exactly when
\* it has a forecast and its travel time in hours and minutes exactly when
\* it has a journey; the list is the ranked list cut as for any response.
ThmC15_SummaryFallback ==
    Generating =>
      /\ pc = "raised" => recommendations = <<>>
      /\ (pc = "returned" /\ response.ai_summary.kind = "fallback") =>
           LET first == response.recommendations[1]
               summary == response.ai_summary
           IN  /\ response.kind = "recommendations"
               /\ response.recommendations # <<>>
               /\ response.recommendations = SliceTo(recommendations, count)
               /\ first = recommendations[1]
               /\ summary.name = first.resort
               /\ summary.score = first.score
               /\ summary.weather = IF first.weather_forecast = NoForecast THEN <<>>
                                    ELSE <<ForecastOf(first.resort).conditions>>
               /\ summary.travel = IF first.journey = NoJourney THEN <<>>
                                   ELSE <<1, 35>>

\* the LLM call failed for a response of two recommendations whose first
\* has a journey but no forecast
WitC15_FallbackWithoutWeather ==
    /\ Generating /\ pc = "returned"
    /\ response.ai_summary.kind = "fallback"
    /\ Len(response.recommendations) = 2
    /\ response.recommendations[1].resort # response.recommendations[2].resort
    /\ response.recommendations[1].weather_forecast = NoForecast
    /\ response.ai_summary.weather = <<>>
    /\ response.ai_summary.travel = <<1, 35>>

----------------------------------------------------------------------------
(* recommender.py: _get_next_weekend_dates.  A date is its proleptic       *)
(* Gregorian ordinal (date.toordinal(): day 1 is Monday 0001-01-01).       *)

NumDays == 120

Todays == 1..NumDays

\* date.weekday(): Monday is 0, Saturday 5, Sunday 6
weekday(day) == (day + 6) % 7

\* Python's `x or y` on integers
OrElse(x, y) == IF x # 0 THEN x ELSE y

get_next_weekend_dates_NoSaturdayCase(today) ==
    LET days_until_saturday == (5 - weekday(today)) % 7
        saturday == today + OrElse(days_until_saturday, 7)
    IN  [saturday |-> saturday, sunday |-> saturday + 1]

get_next_weekend_dates(today) ==
    LET days_until_saturday == (5 - weekday(today)) % 7
        saturday == IF days_until_saturday = 0 /\ weekday(today) = 5
                      THEN today
                      ELSE today + OrElse(days_until_saturday, 7)
    IN  [saturday |-> saturday, sunday |-> saturday + 1]

InitDates ==
    /\ fn = "_get_next_weekend_dates"
    /\ arg \in Todays
    /\ ret = NoResult
    /\ IdleRequest
    /\ catalog = AllResorts

GetNextWeekendDates ==
    /\ fn = "_get_next_weekend_dates"
    /\ ret = NoResult
    /\ ret' = get_next_weekend_dates(arg)
    /\ UNCHANGED <<fn, arg>>
    /\ UNCHANGED reqVars

NextDates == GetNextWeekendDates

SpecDates == InitDates /\ [][NextDates]_vars

\* C16: the default Saturday is a Saturday (ordinal 6 modulo 7), not before
\* today and at most 6 days after it, today itself when today is a
\* Saturday; the Sunday is the day after.
ThmC16_UpcomingSaturday ==
    (fn = "_get_next_weekend_dates" /\ Returned) =>
      /\ ret.saturday % 7 = 6
      /\ arg <= ret.saturday /\ ret.saturday <= arg + 6
      /\ arg % 7 = 6 => ret.saturday = arg
      /\ ret.sunday = ret.saturday + 1

\* called on a Saturday, the function answered that same day
WitC16_TodayIsSaturday ==
    /\ fn = "_get_next_weekend_dates" /\ Returned
    /\ arg = 13
    /\ ret.saturday = 13
    /\ ret.sunday = 14

----------------------------------------------------------------------------
(* score_resort applied to one resort's data.                              *)

ScenarioSnow ==
    [present |-> TRUE, snow_base |-> 160, new_snow_24h |-> 25,
     new_snow_7d |-> NoneInt, snow_quality |-> "Powder"]

ScenarioJourney == [present |-> TRUE, duration_minutes |-> 95, changes |-> 0]

ScenarioResort == [present |-> TRUE, skiable_terrain_km |-> 210]

ResortInputs ==
    [weather : {NoForecast, ForecastOf(1),
                [present |-> TRUE, temperature_min |-> -12, temperature_max |-> -3,
                 snowfall_cm |-> 20, cloud_cover |-> 29, wind_speed |-> 19,
                 precipitation_mm |-> 0]},
     snow : {NoConditions, ScenarioSnow, ConditionsOf(1),
             [present |-> TRUE, snow_base |-> 39, new_snow_24h |-> 0,
              new_snow_7d |-> 0, snow_quality |-> "Icy"]},
     transport : {NoJourney, ScenarioJourney, JourneyOf(1),
                  [present |-> TRUE, duration_minutes |-> 240, changes |-> 2]},
     resort : {NoResort, ScenarioResort, ResortOf(1),
               [present |-> TRUE, skiable_terrain_km |-> 60]},
     up : BOOLEAN]

InitResort ==
    /\ fn = "score_resort"
    /\ arg \in ResortInputs
    /\ ret = NoResult
    /\ IdleRequest
    /\ catalog = AllResorts

ScoreResort ==
    /\ fn = "score_resort" /\ ret = NoResult
    /\ ret' = score_resort(arg.weather, arg.snow, arg.transport, arg.resort, arg.up)
    /\ UNCHANGED <<fn, arg>>
    /\ UNCHANGED reqVars

NextResort == ScoreResort

SpecResort == InitResort /\ [][NextResort]_vars

\* C17: for no forecast, snow (base 160, 25 cm in 24h, "Powder"), a journey
\* of 95 minutes without changes and 210 km of terrain, score_resort gives
\* weather 5.0, snow 10.0, transport 10.0, size 10.0 and total 9.0.
ThmC17_EndToEndScenario ==
    (/\ fn = "score_resort" /\ Returned
     /\ arg.weather = NoForecast /\ arg.snow = ScenarioSnow
     /\ arg.transport = ScenarioJourney /\ arg.resort = ScenarioResort)
      => /\ ret.weather_score = 50
         /\ ret.snow_score = 100
         /\ ret.transport_score = 100
         /\ ret.size_score = 100
         /\ ret.total_score = 90

\* the scenario was scored, its snow and transport sums beyond 10 before
\* the clamp (5 + 2.5 + 3 + 1.5 and 10 + 0.5)
WitC17_ScenarioScored ==
    /\ fn = "score_resort" /\ Returned
    /\ arg.weather = NoForecast /\ arg.snow = ScenarioSnow
    /\ arg.transport = ScenarioJourney /\ arg.resort = ScenarioResort
    /\ ret.total_score = 90
    /\ 500 + snow_base_depth(arg.snow).d + snow_new_24h(arg.snow).d
         + snow_new_7d(arg.snow).d + snow_quality_step(arg.snow).d = 1200
    /\ transport_duration(arg.transport).d + transport_changes(arg.transport).d = 1050

----------------------------------------------------------------------------
(* Duration bands of score_transport and the fresh snow step of score_snow. *)

\* the journeys of the sample set that differ from j in duration only
SlowerThan(j) ==
    {k \in Journeys : /\ k.present
                      /\ k.changes = j.changes
                      /\ k.duration_minutes >= j.duration_minutes}

\* C18: score_transport takes its base score from the first duration band
\* whose strict upper bound exceeds the minutes (below 120 gives 10.0, below
\* 150 gives 8.5, below 180 gives 7.0, below 210 gives 5.5, below 240 gives
\* 4.0, anything else 2.0), so that a boundary value falls in the slower
\* band, and with the number of changes fixed a longer journey never scores
\* higher.
ThmC18_DurationBands ==
    (fn = "score_transport" /\ Returned /\ arg.present) =>
        LET m == arg.duration_minutes
            base == IF m < 120 THEN 1000
                    ELSE IF m < 150 THEN 850
                    ELSE IF m < 180 THEN 700
                    ELSE IF m < 210 THEN 550
                    ELSE IF m < 240 THEN 400
                    ELSE 200
        IN  /\ ret.score = Round1(Clamp(base + transport_changes(arg).d))
            /\ (m = 119 /\ arg.changes = 1) => ret.score = 100
            /\ (m = 120 /\ arg.changes = 1) => ret.score = 85
            /\ \A k \in SlowerThan(arg) : score_transport(k).score <= ret.score

WitC18_BoundaryInSlowerBand ==
    /\ fn = "score_transport" /\ Returned /\ arg.present
    /\ arg.duration_minutes = 120 /\ arg.changes = 1
    /\ ret.score = 85
    /\ \E k \in SlowerThan(arg) : score_transport(k).score < ret.score

\* the conditions that differ from c in new_snow_24h only, set to n
WithNew24h(c, n) == [c EXCEPT !.new_snow_24h = n]

\* C19: with base depth, new_snow_7d and quality label fixed, score_snow
\* does not decrease when new_snow_24h increases: the returned score is at
\* most the score of every conditions record with a larger new_snow_24h and
\* at least the score of every one with a smaller new_snow_24h, clamping
\* included.
ThmC19_FreshSnowMonotone ==
    (fn = "score_snow" /\ Returned /\ arg.present /\ arg.new_snow_24h # NoneInt) =>
        \A n \in New24hSamples \ {NoneInt} :
            /\ n >= arg.new_snow_24h =>
                  score_snow(WithNew24h(arg, n)).score >= ret.score
            /\ n <= arg.new_snow_24h =>
                  score_snow(WithNew24h(arg, n)).score <= ret.score

WitC19_ZeroTenTwenty ==
    /\ fn = "score_snow" /\ Returned /\ arg.present
    /\ arg.new_snow_24h = 10
    /\ score_snow(WithNew24h(arg, 0)).score < ret.score
    /\ ret.score < score_snow(WithNew24h(arg, 20)).score

----------------------------------------------------------------------------
(* The single fetches get_forecast, get_conditions and get_journey over    *)
(* the shared cache. A cache entry is (value, expiry); fresh stands for    *)
(* datetime.now() < expiry.                                                 *)

NCacheIds == 1
CacheIds == 1..NCacheIds

Fetchers == {"get_forecast", "get_conditions", "get_journey"}

\* settings.cache_enabled
cache_enabled == TRUE

NoValue == [present |-> FALSE]

\* the model object a fetch parses out of a response
Fetched_value(f, id) == [present |-> TRUE, by |-> f, id |-> id]

\* f"weather:...", f"snow:{resort.id}", f"transport:..."
cache_key(f, id) ==
    IF f = "get_forecast" THEN <<"weather", id>>
    ELSE IF f = "get_conditions" THEN <<"snow", id>>
    ELSE <<"transport", id>>

\* SimpleCache.get: the value of an entry that has not expired, else None
cache_get(c, k) ==
    IF k \in DOMAIN c /\ c[k].fresh THEN c[k].value ELSE NoValue

\* SimpleCache.get deletes the entry it finds expired
cache_after_get(c, k) ==
    IF k \in DOMAIN c /\ ~c[k].fresh
      THEN [j \in DOMAIN c \ {k} |-> c[j]]
      ELSE c

\* SimpleCache.set
cache_set(c, k, value) ==
    [j \in DOMAIN c \cup {k} |->
        IF j = k THEN [value |-> value, fresh |-> TRUE] ELSE c[j]]

\* the result is stored whatever it is
should_cache_Always(value) == cache_enabled

\* if forecast and settings.cache_enabled
should_cache(value) == value.present /\ cache_enabled

\* the cache after a fetch has produced value
cache_after_fetch(c, k, value) ==
    IF should_cache(value) THEN cache_set(c, k, value) ELSE c

RequestOutcomes == {"val", "none", "fail"}

\* what a request leaves in the local variable: a parsed object, or None
\* when nothing was parsed or an exception was caught
ValueFrom(outcome, f, id) ==
    IF outcome = "val" THEN Fetched_value(f, id) ELSE NoValue

\* the call runs to its first await: the cache check, then either the
\* return of the cached value or the first external request
FetchCall ==
    /\ pc = "idle"
    /\ \E f \in Fetchers, id \in CacheIds, slug \in BOOLEAN :
          LET k == cache_key(f, id)
              cached == IF cache_enabled THEN cache_get(cache, k) ELSE NoValue
          IN  /\ f # "get_conditions" => ~slug
              /\ fn' = f
              /\ arg' = [id |-> id, key |-> k, slug |-> slug]
              /\ cache' = IF cache_enabled THEN cache_after_get(cache, k) ELSE cache
              /\ IF cached.present
                   THEN /\ ret' = cached
                        /\ external' = 0
                        /\ pc' = "returned"
                   ELSE /\ ret' = NoValue
                        /\ external' = 1
                        /\ pc' = IF f = "get_conditions" /\ ~slug
                                   THEN "fallback" ELSE "request"
    /\ UNCHANGED <<op, count, fetchVars, recommendations, response, detailVars,
                   progressVars, streamVars, catalog, plan, calls>>

\* the first request of the call ends; get_conditions goes on to Open-Meteo
\* when snow-forecast.com gave nothing
RequestEnd ==
    /\ pc = "request"
    /\ \E outcome \in RequestOutcomes :
          LET value == ValueFrom(outcome, fn, arg.id)
          IN  IF fn = "get_conditions" /\ ~value.present
                THEN /\ external' = external + 1
                     /\ pc' = "fallback"
                     /\ UNCHANGED <<ret, cache>>
                ELSE /\ ret' = value
                     /\ cache' = cache_after_fetch(cache, arg.key, value)
                     /\ pc' = "returned"
                     /\ UNCHANGED external
    /\ UNCHANGED <<fn, arg, op, count, fetchVars, recommendations, response,
                   detailVars, progressVars, streamVars, catalog, plan, calls>>

\* _fetch_from_open_meteo ends
FallbackEnd ==
    /\ pc = "fallback"
    /\ \E outcome \in RequestOutcomes :
          LET value == ValueFrom(outcome, fn, arg.id)
          IN  /\ ret' = value
              /\ cache' = cache_after_fetch(cache, arg.key, value)
              /\ pc' = "returned"
    /\ UNCHANGED <<fn, arg, external, op, count, fetchVars, recommendations,
                   response, detailVars, progressVars, streamVars, catalog, plan, calls>>

\* the caller has the result; the service is ready for the next call
FetchDone ==
    /\ pc = "returned" /\ fn \in Fetchers
    /\ pc' = "idle"
    /\ UNCHANGED <<scoreVars, external, cache, op, count, fetchVars,
                   recommendations, response, detailVars, progressVars,
                   streamVars, catalog, plan, calls>>

\* time passes the expiry of an entry
Expire ==
    /\ \E k \in DOMAIN cache :
          /\ cache[k].fresh
          /\ cache' = [cache EXCEPT ![k].fresh = FALSE]
    /\ UNCHANGED <<scoreVars, pc, external, op, count, fetchVars,
                   recommendations, response, detailVars, progressVars,
                   streamVars, catalog, plan, calls>>

NextCache == FetchCall \/ RequestEnd \/ FallbackEnd \/ FetchDone \/ Expire

SpecCache == Init /\ [][NextCache]_vars

\* a key gets an entry, or its entry gets another value or a later expiry
Written(k) ==
    /\ k \in DOMAIN cache'
    /\ \/ k \notin DOMAIN cache
       \/ cache'[k].value # cache[k].value
       \/ cache'[k].fresh /\ ~cache[k].fresh

\* C20: a call of get_forecast, get_conditions or get_journey whose key has
\* an unexpired entry returns that entry's value having made no external
\* request and leaves the cache as it was; any other call makes a request.
\* The cache is written only at the end of a request that produced a value,
\* under the key of the call and with that value; when the call returns
\* nothing the cache holds no entry for the key, so the next call for the
\* key makes a request again.
ThmC20_CacheDiscipline ==
    [][ /\ (pc = "idle" /\ pc' # "idle") =>
              LET k == arg'.key
              IN  IF k \in DOMAIN cache /\ cache[k].fresh
                    THEN /\ pc' = "returned"
                         /\ ret' = cache[k].value
                         /\ external' = 0
                         /\ cache' = cache
                    ELSE /\ pc' \in {"request", "fallback"}
                         /\ external' = 1
                         /\ k \notin DOMAIN cache'
        /\ \A k \in DOMAIN cache' :
              Written(k) =>
                  /\ pc \in {"request", "fallback"} /\ pc' = "returned"
                  /\ k = arg.key
                  /\ ret'.present
                  /\ cache'[k] = [value |-> ret', fresh |-> TRUE]
        /\ (pc \in {"request", "fallback"} /\ pc' = "returned" /\ ~ret'.present) =>
              /\ cache' = cache
              /\ arg.key \notin DOMAIN cache'
      ]_vars

WitC20_HitWithoutRequest ==
    /\ fn \in Fetchers /\ pc = "returned"
    /\ external = 0
    /\ ret.present
    /\ arg.key \in DOMAIN cache /\ cache[arg.key].value = ret

WitC20_FailureNotCached ==
    /\ fn = "get_conditions" /\ pc = "returned"
    /\ external = 2
    /\ ~ret.present
    /\ arg.key \notin DOMAIN cache
    /\ cache # EmptyCache

----------------------------------------------------------------------------
(* The on_progress callback of the batch fetches.                          *)

\* the runs of generate_recommendations_with_progress on their own
NextProgress ==
    \/ CallWithProgress
    \/ AnnounceLoading
    \/ LoadResorts
    \/ StartBatch
    \/ FetchEndWithProgress
    \/ ScoreWithProgress
    \/ SummarizeWithProgress

SpecProgress == Init /\ [][NextProgress]_vars

\* the updates progress.increment has put for the batch of src, in order
Increments(src) ==
    LET e == SelectSeq(enqueued, LAMBDA h : /\ h.call = "increment"
                                            /\ h.update.stage = StageOf(src))
    IN  [k \in DOMAIN e |-> e[k].update]

\* the resorts whose fetch for src has resolved to a value or to None
Resolved(src) == {i \in DOMAIN task[src] : task[src][i] \in {"val", "none"}}

WitC21_BatchReturnedAllReported ==
    /\ WithProgress
    /\ data["snow"].returned
    /\ Cardinality(Resolved("snow")) = Len(resorts)
    /\ Len(Increments("snow")) = NResorts

\* the places in the queue's history of the set_stage message of a stage
TransitionAt(stage) ==
    {p \in DOMAIN enqueued : /\ enqueued[p].call = "set_stage"
                             /\ enqueued[p].update.stage = stage}

\* C27: within one fetch stage, whatever the order in which the per-resort
\* fetches end, the k-th increment update put on the queue carries the
\* batch's stage, current = k and total = N, so the counts are 1, 2, ...
\* with no duplicate and no gap, up to N once the batch has returned with
\* every fetch resolved; each of them is put after the transition message
\* of its stage and before the transition message of the next stage.
ThmC27_IncrementsInOrder ==
    WithProgress =>
        /\ \A p \in DOMAIN enqueued :
              enqueued[p].call = "increment" =>
                  \E src \in Sources : enqueued[p].update.stage = StageOf(src)
        /\ \A src \in Sources :
              LET incs == Increments(src)
                  N == Len(resorts)
              IN  /\ \A k \in DOMAIN incs :
                        incs[k] = ProgressUpdate(StageOf(src), k, N)
                  /\ (data[src].returned /\ Cardinality(Resolved(src)) = N) =>
                        Len(incs) = N
                  /\ \A p \in DOMAIN enqueued :
                        (/\ enqueued[p].call = "increment"
                         /\ enqueued[p].update.stage = StageOf(src)) =>
                            /\ \E q \in TransitionAt(StageOf(src)) : q < p
                            /\ \A q \in TransitionAt(StageAfter(src)) : p < q

WitC27_TwoStagesCounted ==
    /\ WithProgress /\ pc = "scoring"
    /\ \A src \in Sources :
          /\ Len(Increments(src)) = NResorts
          /\ Increments(src)[NResorts].current = NResorts
    /\ task["weather"] # task["snow"]

----------------------------------------------------------------------------
(* get_resort_journey over the shared cache. The cache holds the Journey   *)
(* object itself, so an assignment to a field of a journey that came from  *)
(* get_journey is an assignment to the cached entry's value.               *)

NJourneyResorts == 2
MaxMinutes == 200

StationMinutes == 100
DirectMinutes == 95

\* the resorts of the run: all reached through one nearest station by a
\* connecting bus; the source also knows a direct connection to every
\* second one
JourneyResorts ==
    {[name |-> <<"resort", i>>,
      nearest_station |-> <<"station", 1>>,
      postbus_duration_minutes |-> 10 + 10 * i,
      direct |-> (i % 2 = 0)] : i \in 1..NJourneyResorts}

\* the journey parsed from the source's connection to a destination
SourceJourney(minutes) ==
    [present |-> TRUE, duration_minutes |-> minutes, changes |-> 1]

\* journey.duration_minutes += resort.access.postbus_duration_minutes, on
\* the object the cache holds under key k
AddPostBus(c, k, resort) ==
    IF Truthy(resort.postbus_duration_minutes)
      THEN [c EXCEPT ![k].value.duration_minutes =
                        @ + resort.postbus_duration_minutes]
      ELSE c

\* get_journey(from_location, resort.access.nearest_station, travel_date),
\* up to its request: on a hit the cached journey gets the bus time added
\* and is returned
TryStation(c) ==
    LET k == cache_key("get_journey", arg'.nearest_station)
        cached == cache_get(c, k)
    IN  IF cached.present
          THEN /\ cache' = AddPostBus(cache_after_get(c, k), k, arg')
               /\ ret' = cache'[k].value
               /\ pc' = "returned"
               /\ UNCHANGED external
          ELSE /\ cache' = cache_after_get(c, k)
               /\ ret' = NoValue
               /\ external' = external + 1
               /\ pc' = "station"

\* get_resort_journey runs to its first request: get_journey for the resort
\* name checks the cache
ResortJourneyCall ==
    /\ pc = "idle"
    /\ \A k \in DOMAIN cache : cache[k].value.duration_minutes <= MaxMinutes
    /\ \E resort \in JourneyResorts :
          LET k == cache_key("get_journey", resort.name)
              cached == cache_get(cache, k)
          IN  /\ fn' = "get_resort_journey"
              /\ arg' = resort
              /\ cache' = cache_after_get(cache, k)
              /\ IF cached.present
                   THEN /\ ret' = cached
                        /\ external' = 0
                        /\ pc' = "returned"
                   ELSE /\ ret' = NoValue
                        /\ external' = 1
                        /\ pc' = "direct"
    /\ UNCHANGED <<op, count, fetchVars, recommendations, response, detailVars,
                   progressVars, streamVars, catalog, plan, calls>>

\* the request for the resort name ends; without a journey the nearest
\* station is tried
DirectEnd ==
    /\ pc = "direct"
    /\ \E found \in {arg.direct, FALSE} :
          IF found
            THEN /\ ret' = SourceJourney(DirectMinutes)
                 /\ cache' = cache_after_fetch(
                                cache, cache_key("get_journey", arg.name), ret')
                 /\ pc' = "returned"
                 /\ UNCHANGED <<arg, external>>
            ELSE /\ UNCHANGED arg
                 /\ TryStation(cache)
    /\ UNCHANGED <<fn, op, count, fetchVars, recommendations, response,
                   detailVars, progressVars, streamVars, catalog, plan, calls>>

\* the request for the nearest station ends: the journey is cached by
\* get_journey, then the bus time is added to it
StationEnd ==
    /\ pc = "station"
    /\ \E found \in BOOLEAN :
          LET k == cache_key("get_journey", arg.nearest_station)
          IN  IF found
                THEN /\ cache' = AddPostBus(
                                    cache_after_fetch(cache, k,
                                                      SourceJourney(StationMinutes)),
                                    k, arg)
                     /\ ret' = cache'[k].value
                ELSE /\ ret' = NoValue
                     /\ UNCHANGED cache
    /\ pc' = "returned"
    /\ UNCHANGED <<fn, arg, external, op, count, fetchVars, recommendations,
                   response, detailVars, progressVars, streamVars, catalog, plan, calls>>

\* the caller has the journey
ResortJourneyDone ==
    /\ pc = "returned" /\ fn = "get_resort_journey"
    /\ pc' = "idle"
    /\ UNCHANGED <<scoreVars, external, cache, op, count, fetchVars,
                   recommendations, response, detailVars, progressVars,
                   streamVars, catalog, plan, calls>>

NextJourney ==
    ResortJourneyCall \/ DirectEnd \/ StationEnd \/ ResortJourneyDone \/ Expire

SpecJourney == Init /\ [][NextJourney]_vars

\* C22: every journey get_resort_journey returns for a resort has the
\* duration the source gives for the route: that of the direct connection,
\* or that of the connection to the nearest station plus the bus time, the
\* same on every call; and every cached journey keeps the duration it was
\* fetched with.
CexC22_RepeatedCallsAgree ==
    /\ (fn = "get_resort_journey" /\ pc = "returned" /\ ret.present) =>
          \/ arg.direct /\ ret.duration_minutes = DirectMinutes
          \/ ret.duration_minutes = StationMinutes + arg.postbus_duration_minutes
    /\ \A k \in DOMAIN cache :
          cache[k].value.duration_minutes \in {DirectMinutes, StationMinutes}

----------------------------------------------------------------------------
(* The base-depth tier of score_snow.                                      *)

\* C23: for present snow conditions with a known base depth b >= 0, no
\* fresh snow figures and the quality Unknown, score_snow returns 5.0 moved
\* by exactly one tier: +2.5 and a highlight from 150, +1.5 and a highlight
\* from 100, +0.5 from 60, nothing from 40, and -2.0 with the low snow base
\* concern for every b below 40, b = 0 included.
CexC23_BaseDepthTiers ==
    (/\ fn = "score_snow" /\ Returned /\ arg.present
     /\ arg.snow_base # NoneInt /\ arg.snow_base >= 0
     /\ arg.new_snow_24h = NoneInt /\ arg.new_snow_7d = NoneInt
     /\ arg.snow_quality = "Unknown") =>
        LET b == arg.snow_base
        IN  IF b >= 150
              THEN ret = Result(75, <<"Excellent base depth">>, <<>>)
            ELSE IF b >= 100
              THEN ret = Result(65, <<"Good base depth">>, <<>>)
            ELSE IF b >= 60
              THEN ret = Result(55, <<>>, <<>>)
            ELSE IF b >= 40
              THEN ret = Result(50, <<>>, <<>>)
            ELSE ret = Result(30, <<>>, <<"Low snow base">>)

----------------------------------------------------------------------------
(* transport_service.py: a connection of the source's answer parsed into a *)
(* Journey, and the Journey scored. Texts are sequences of characters.     *)

Digits == <<"0", "1", "2", "3", "4", "5", "6", "7", "8", "9">>

DigitValue(ch) == (CHOOSE i \in DOMAIN Digits : Digits[i] = ch) - 1

IsDigit(ch) == \E i \in DOMAIN Digits : Digits[i] = ch

\* int(text) raises ValueError
int_raises(text) == text = <<>> \/ \E i \in DOMAIN text : ~IsDigit(text[i])

RECURSIVE int(_)
int(text) ==
    IF text = <<>> THEN 0
    ELSE 10 * int(SubSeq(text, 1, Len(text) - 1)) + DigitValue(text[Len(text)])

Contains(text, ch) == \E i \in DOMAIN text : text[i] = ch

\* text.split(ch)
RECURSIVE split(_, _)
split(text, ch) ==
    IF ~Contains(text, ch) THEN <<text>>
    ELSE LET i == CHOOSE j \in DOMAIN text :
                    text[j] = ch /\ \A k \in 1..(j - 1) : text[k] # ch
         IN  <<SubSeq(text, 1, i - 1)>> \o split(SubSeq(text, i + 1, Len(text)), ch)

\* JSON null, and a connection without the key
NullText == <<"null">>
MissingText == <<"missing">>

\* connection.get("duration", "00d00:00:00")
DEFAULT_DURATION == <<"0", "0", "d", "0", "0", ":", "0", "0", ":", "0", "0">>

days_part(text) == IF Contains(text, "d") THEN split(text, "d")[1] ELSE <<"0">>
time_part(text) == IF Contains(text, "d") THEN split(text, "d")[2] ELSE text

\* an exception is raised inside the try block of _parse_duration
parse_duration_raises(text) ==
    \/ text = NullText
    \/ int_raises(days_part(text))
    \/ LET time_parts == split(time_part(text), ":")
       IN  \/ int_raises(time_parts[1])
           \/ Len(time_parts) < 2
           \/ int_raises(time_parts[2])

\* _parse_duration: minutes, or 0 when anything was raised
parse_duration(text) ==
    IF parse_duration_raises(text) THEN 0
    ELSE LET time_parts == split(time_part(text), ":")
         IN  int(days_part(text)) * 24 * 60 + int(time_parts[1]) * 60
               + int(time_parts[2])

DurationTexts ==
    {NullText, MissingText,
     <<"0", "0", "d", "0", "2", ":", "4", "5", ":", "0", "0">>,
     <<"0", "0", "d", "0", "1", ":", "5", "9", ":", "0", "0">>,
     <<"0", "0", "d", "0", "2", ":", "0", "0", ":", "0", "0">>,
     <<"0", "0", "d", "0", "4", ":", "1", "0", ":", "0", "0">>,
     <<"0", "1", "d", "0", "0", ":", "3", "0", ":", "0", "0">>,
     <<"0", "2", ":", "4", "5", ":", "0", "0">>,
     <<"1", ":", "0", "5">>,
     <<>>,
     <<"2", "h", "4", "5">>,
     <<"0", "0", "d">>,
     <<"0", "0", "d", "0", "2">>,
     <<"d", "0", "2", ":", "4", "5">>,
     <<"0", "0", "d", ":", "4", "5", ":", "0", "0">>,
     <<"x", "x", "d", "0", "2", ":", "4", "5", ":", "0", "0">>,
     <<"0", "0", "d", "0", "2", ":", "x", "5", ":", "0", "0">>}

Connections ==
    [departure : {"2025-01-18T08:02:00+0100", ""},
     arrival : {"2025-01-18T10:47:00+0100", ""},
     duration : DurationTexts,
     transfers : 0..3]

\* _parse_connection: None without a departure or an arrival, else the
\* Journey with the parsed duration
parse_connection(connection) ==
    IF connection.departure = "" \/ connection.arrival = "" THEN NoJourney
    ELSE LET duration_str == IF connection.duration = MissingText
                               THEN DEFAULT_DURATION ELSE connection.duration
             duration_minutes == parse_duration(duration_str)
         IN  [present |-> TRUE, duration_minutes |-> duration_minutes,
              changes |-> connection.transfers]

InitConnection ==
    /\ fn = "parse_connection"
    /\ arg \in Connections
    /\ ret = NoResult
    /\ IdleRequest
    /\ catalog = AllResorts

\* the connection is parsed and the resulting transport data is scored
ScoreConnection ==
    /\ fn = "parse_connection" /\ ret = NoResult
    /\ ret' = score_transport(parse_connection(arg))
    /\ UNCHANGED <<fn, arg>>
    /\ UNCHANGED reqVars

NextConnection == ScoreConnection

SpecConnection == InitConnection /\ [][NextConnection]_vars

\* C24: a connection whose duration text cannot be parsed gives absent
\* transport data, scored 3.0 with the concern that transport data is
\* unavailable, and never a journey scored in a duration band.
CexC24_UnparsedDurationIsAbsent ==
    (/\ fn = "parse_connection" /\ Returned
     /\ arg.duration # MissingText
     /\ parse_duration_raises(arg.duration)) =>
        ret = Result(TRANSPORT_UNAVAILABLE_SCORE, <<>>,
                     <<"Transport data unavailable">>)

----------------------------------------------------------------------------
(* recommender.py: _generate_reasoning. The text is the sequence of the    *)
(* pieces the f-strings and joins put together; scores are in tenths.      *)

\* sep.join(parts)
RECURSIVE join(_, _)
join(parts, sep) ==
    IF parts = <<>> THEN <<>>
    ELSE IF Len(parts) = 1 THEN parts[1]
    ELSE parts[1] \o <<sep>> \o join(Tail(parts), sep)

overall_clause(name, total_score) ==
    IF total_score >= 80 THEN <<name, " looks excellent this weekend">>
    ELSE IF total_score >= 60 THEN <<name, " is a solid choice">>
    ELSE IF total_score >= 40 THEN <<name, " is an option worth considering">>
    ELSE <<name, " may not be ideal this weekend">>

\* the negative phrase from 4.0 downwards instead of below 4.0
factor_phrase_Inclusive(score, positive, negative) ==
    IF score >= 70 THEN <<<<positive>>>>
    ELSE IF score <= 40 THEN <<<<negative>>>>
    ELSE <<>>

\* if score >= 7: factors.append(positive) elif score < 4: factors.append(negative)
factor_phrase(score, positive, negative) ==
    IF score >= 70 THEN <<<<positive>>>>
    ELSE IF score < 40 THEN <<<<negative>>>>
    ELSE <<>>

generate_reasoning(name, total_score, weather_score, snow_score, transport_score) ==
    LET factors == factor_phrase(weather_score, "great weather", "challenging weather")
                   \o factor_phrase(snow_score, "excellent snow conditions", "limited snow")
                   \o factor_phrase(transport_score, "easy access", "long travel time")
        parts == <<overall_clause(name, total_score)>>
                 \o (IF factors # <<>>
                       THEN <<<<"with ">> \o join(factors, ", ")>> ELSE <<>>)
    IN  join(parts, ". ") \o <<".">>

ReasoningTotals == {0, 39, 40, 59, 60, 79, 80, 100}
ReasoningScores == {0, 39, 40, 69, 70, 100}

ReasoningInputs ==
    [name : {"Verbier"}, total : ReasoningTotals, weather : ReasoningScores,
     snow : ReasoningScores, transport : ReasoningScores]

InitReasoning ==
    /\ fn = "generate_reasoning"
    /\ arg \in ReasoningInputs
    /\ ret = NoResult
    /\ IdleRequest
    /\ catalog = AllResorts

GenerateReasoning ==
    /\ fn = "generate_reasoning" /\ ret = NoResult
    /\ ret' = [text |-> generate_reasoning(arg.name, arg.total, arg.weather,
                                           arg.snow, arg.transport)]
    /\ UNCHANGED <<fn, arg>>
    /\ UNCHANGED reqVars

NextReasoning == GenerateReasoning

SpecReasoning == InitReasoning /\ [][NextReasoning]_vars

\* the phrase the claim gives for one factor: none between 4.0 and 7.0
Phrase(score, positive, negative) ==
    IF score >= 70 THEN <<positive>>
    ELSE IF score < 40 THEN <<negative>>
    ELSE <<>>

\* C25: the reasoning text is the overall clause chosen by the total
\* (from 8, from 6, from 4, else), then, when at least one factor has a
\* phrase, ". with " and the phrases in the order weather, snow, transport
\* separated by ", ", then "."; a factor contributes its positive phrase
\* from 7.0, its negative phrase below 4.0 and nothing in between.
ThmC25_ReasoningText ==
    (fn = "generate_reasoning" /\ Returned) =>
        LET overall == IF arg.total >= 80 THEN " looks excellent this weekend"
                       ELSE IF arg.total >= 60 THEN " is a solid choice"
                       ELSE IF arg.total >= 40 THEN " is an option worth considering"
                       ELSE " may not be ideal this weekend"
            phrases == Phrase(arg.weather, "great weather", "challenging weather")
                       \o Phrase(arg.snow, "excellent snow conditions", "limited snow")
                       \o Phrase(arg.transport, "easy access", "long travel time")
            listed == IF Len(phrases) = 1 THEN phrases
                      ELSE IF Len(phrases) = 2 THEN <<phrases[1], ", ", phrases[2]>>
                      ELSE IF Len(phrases) = 3
                        THEN <<phrases[1], ", ", phrases[2], ", ", phrases[3]>>
                      ELSE <<>>
        IN  ret.text = IF phrases = <<>>
                         THEN <<arg.name, overall, ".">>
                         ELSE <<arg.name, overall, ". ", "with ">> \o listed \o <<".">>

WitC25_ThreeFactors ==
    /\ fn = "generate_reasoning" /\ Returned
    /\ arg.total = 60 /\ arg.weather = 70 /\ arg.snow = 39 /\ arg.transport = 100
    /\ ret.text = <<"Verbier", " is a solid choice", ". ", "with ", "great weather",
                    ", ", "limited snow", ", ", "easy access", ".">>

WitC25_NoFactor ==
    /\ fn = "generate_reasoning" /\ Returned
    /\ arg.weather = 40 /\ arg.snow = 69 /\ arg.transport = 40
    /\ ret.text = <<"Verbier", " may not be ideal this weekend", ".">>

----------------------------------------------------------------------------
(* The end of a stream. The event loop runs every task that is ready: the  *)
(* generation's steps are taken when their awaited fetch or summarizer     *)
(* call has ended, and the consumer's wait ends after 0.5 s at the latest. *)

\* the step of ScoreWithProgress as pc shows it: scoring awaits nothing, so
\* the step is taken once the last batch has returned
Scored == WithProgress /\ pc = "scoring" /\ pc' = "generating_ai"

Fairness ==
    /\ WF_vars(AnnounceLoading)
    /\ WF_vars(LoadResorts)
    /\ WF_vars(StartBatch)
    /\ WF_vars(FetchEndWithProgress)
    /\ WF_pc(Scored)
    /\ WF_vars(SummarizeWithProgress)
    /\ WF_vars(ConsumerCheck)
    /\ WF_vars(ConsumerGet)
    /\ WF_vars(ConsumerTimeout)
    /\ WF_vars(ConsumerDrain)
    /\ WF_vars(ConsumerFinal)

SpecStreamLive == InitStream /\ [][NextStream]_vars /\ Fairness

IsTerminal(event) == event.type \in {"result", "error"}

\* C26: a result or error event is the last event of its stream, so a
\* stream has at most one of them; a closed stream ends with the result
\* event when the generation returned and with the error event when it
\* raised; when the terminal event is emitted every update enqueued before
\* it has been emitted as a progress event; and every stream that was
\* opened is eventually closed with its terminal event.
ThmC26_OneTerminalEvent ==
    /\ [](\A k \in DOMAIN emitted : IsTerminal(emitted[k]) => k = Len(emitted))
    /\ [](cpc = "closed" =>
            /\ emitted # <<>>
            /\ pc = "returned" => emitted[Len(emitted)] = ResultEvent(response)
            /\ pc = "raised" => emitted[Len(emitted)] = ErrorEvent
            /\ pc \in {"returned", "raised"}
            /\ queue = <<>>
            /\ ProgressData(emitted) = Updates(enqueued))
    /\ [](emitted # <<>> /\ IsTerminal(emitted[Len(emitted)]) => cpc = "closed")
    /\ (cpc = "loop" ~> cpc = "closed")

WitC26_ErrorAfterProgress ==
    /\ cpc = "closed" /\ pc = "raised"
    /\ Len(emitted) >= 2
    /\ emitted[Len(emitted)] = ErrorEvent
    /\ emitted[1].type = "progress"

WitC26_ResultLast ==
    /\ cpc = "closed" /\ pc = "returned"
    /\ emitted[Len(emitted)].type = "result"
    /\ Len(emitted) > Len(StageSequence)

----------------------------------------------------------------------------
(* Requests served at the same time. Each call of get_conditions_batch or  *)
(* get_journeys_batch creates its own asyncio.Semaphore.                   *)

NRequests == 2
NSharedResorts == 6

LimitedSources == {"snow", "transport"}

\* a request reaches its snow or transport batch: semaphore = asyncio.Semaphore(n)
\* is created in the call, then the tasks are gathered
RequestCallsBatch ==
    /\ Len(calls) < NRequests
    /\ \E src \in LimitedSources :
          calls' = Append(calls, [src |-> src,
                                  tasks |-> StartTasks(src, NSharedResorts)])
    /\ UNCHANGED <<scoreVars, op, count, pc, fetchVars, recommendations, response,
                   detailVars, progressVars, streamVars, catalog, plan, cache,
                   external>>

\* a per-resort fetch of one of the calls ends and releases its slot of that
\* call's semaphore
RequestFetchEnd ==
    /\ \E r \in DOMAIN calls :
          \E i \in DOMAIN calls[r].tasks :
             /\ calls[r].tasks[i] = "inflight"
             /\ calls' = [calls EXCEPT ![r].tasks = EndTask(@, i, "val")]
    /\ UNCHANGED <<scoreVars, op, count, pc, fetchVars, recommendations, response,
                   detailVars, progressVars, streamVars, catalog, plan, cache,
                   external>>

NextRequests == RequestCallsBatch \/ RequestFetchEnd

SpecRequests == Init /\ [][NextRequests]_vars

\* the per-resort fetches of src in flight over all the calls
TotalInFlight(src) ==
    Cardinality({c \in (DOMAIN calls) \X (1..NSharedResorts) :
                    /\ calls[c[1]].src = src
                    /\ calls[c[1]].tasks[c[2]] = "inflight"})

\* C28: with several requests served at the same time, the snow fetches in
\* flight over all of them never exceed 5 and the transport fetches in
\* flight over all of them never exceed 10.
CexC28_CapsAcrossRequests ==
    /\ TotalInFlight("snow") <= SNOW_CONCURRENCY
    /\ TotalInFlight("transport") <= TRANSPORT_CONCURRENCY

----------------------------------------------------------------------------
(* main.py: the date get_resort_weather and get_transport use when the     *)
(* request gives none.                                                      *)

DateEndpoints == {"get_resort_weather", "get_transport"}

\* days_until_saturday = (5 - today.weekday()) % 7
\* parsed_date = today + timedelta(days=days_until_saturday or 7)
default_target_date(today) ==
    LET days_until_saturday == (5 - weekday(today)) % 7
    IN  today + OrElse(days_until_saturday, 7)

InitDefaults ==
    /\ fn \in DateEndpoints
    /\ arg \in Todays
    /\ ret = NoResult
    /\ IdleRequest
    /\ catalog = AllResorts

\* the handler is called without target_date on the day arg
DefaultTargetDate ==
    /\ fn \in DateEndpoints
    /\ ret = NoResult
    /\ ret' = [parsed_date |-> default_target_date(arg)]
    /\ UNCHANGED <<fn, arg>>
    /\ UNCHANGED reqVars

NextDefaults == DefaultTargetDate

SpecDefaults == InitDefaults /\ [][NextDefaults]_vars

\* C29: on every day, the date GET /api/weather/{resort_id} and GET
\* /api/transport use when no date is given is the Saturday the recommender
\* uses by default on that day.
CexC29_SameDefaultDate ==
    (fn \in DateEndpoints /\ Returned) =>
        ret.parsed_date = get_next_weekend_dates(arg).saturday

----------------------------------------------------------------------------
(* recommender.py: the target date of the fetches and the target_weekend   *)
(* label. Day 1 is a Monday, 1 January of a common year.                    *)

MaxAhead == 14

MonthLengths == <<31, 28, 31, 30, 31, 30, 31, 31, 30, 31, 30, 31>>
MonthNames == <<"Jan", "Feb", "Mar", "Apr", "May", "Jun", "Jul", "Aug", "Sep",
                "Oct", "Nov", "Dec">>

RECURSIVE DaysBefore(_)
DaysBefore(month) ==
    IF month = 1 THEN 0 ELSE DaysBefore(month - 1) + MonthLengths[month - 1]

month_of(day) ==
    CHOOSE m \in DOMAIN MonthLengths :
        DaysBefore(m) < day /\ day <= DaysBefore(m) + MonthLengths[m]

\* date.strftime('%b %d')
strftime_b_d(day) == <<MonthNames[month_of(day)], " ", day - DaysBefore(month_of(day))>>

\* f"{saturday.strftime('%b %d')} - {sunday.strftime('%b %d')}"
target_weekend(saturday, sunday) ==
    strftime_b_d(saturday) \o <<" - ">> \o strftime_b_d(sunday)

NoTargetDate == [given |-> FALSE]

\* target_date = target_date or saturday
target_date_or(target_date, saturday) ==
    IF target_date.given THEN target_date.day ELSE saturday

Orchestrators ==
    {"generate_recommendations", "generate_recommendations_with_progress"}

LabelRequests ==
    {[today |-> t, target_date |-> d] :
        t \in Todays,
        d \in {NoTargetDate} \cup {[given |-> TRUE, day |-> x] : x \in 1..(NumDays + MaxAhead)}}

InitLabel ==
    /\ fn \in Orchestrators
    /\ arg \in {r \in LabelRequests :
                  r.target_date.given =>
                      /\ r.today <= r.target_date.day
                      /\ r.target_date.day <= r.today + MaxAhead}
    /\ ret = NoResult
    /\ IdleRequest
    /\ catalog = AllResorts

\* the orchestrator fixes the date of its weather and transport fetches and
\* the label of its response
LabelResponse ==
    /\ fn \in Orchestrators
    /\ ret = NoResult
    /\ LET weekend == get_next_weekend_dates(arg.today)
       IN  ret' = [target_date |-> target_date_or(arg.target_date, weekend.saturday),
                   target_weekend |-> target_weekend(weekend.saturday, weekend.sunday)]
    /\ UNCHANGED <<fn, arg>>
    /\ UNCHANGED reqVars

NextLabel == LabelResponse

SpecLabel == InitLabel /\ [][NextLabel]_vars

\* C30: the target_weekend label of a response names the date the weather
\* and transport data were fetched for and the day after it, whether the
\* request gave a target date or left it to the default.
CexC30_LabelNamesTargetDate ==
    (fn \in Orchestrators /\ Returned) =>
        ret.target_weekend =
            strftime_b_d(ret.target_date) \o <<" - ">> \o strftime_b_d(ret.target_date + 1)

====
